---------------------------- MODULE Spec2Model ----------------------------
(***************************************************************************)
(* Bed-edge pre-fall monitor of deepstream-test4: the zone monitor         *)
(* (src/zone_logic_simple.py), the status store (src/storage.py), the      *)
(* console and HTTP alerts (src/alerts.py), the second point-in-polygon   *)
(* test (src/geometry.py), the per-frame pad probe and the process from    *)
(* its command line to its exit (deepstream_test_4.py).                    *)
(*                                                                         *)
(* Numbers.  Python floats are IEEE-754 doubles.  A double is modelled     *)
(* exactly, as a sign and a magnitude; the magnitude is a natural number   *)
(* counting units of 2^-FracBits.  Every arithmetic result is rounded to   *)
(* Mant significant bits, ties to even, as the hardware does.  Pixel       *)
(* coordinates are small integers and halves; they are kept as integers    *)
(* counted in half pixels, and distances as exact squared fractions: on    *)
(* the beds used here the source's double computations decide every        *)
(* comparison as exact arithmetic does.                                    *)
(*                                                                         *)
(* Environment.  Reading an existing status file succeeds; writing fails   *)
(* with OSError while the output directory is not writable.  The clock     *)
(* does not advance during one call.  A command line is one optparse      *)
(* accepts.  The bus-message handler (common.bus_call) is outside the      *)
(* sources at hand: it ends the event loop on end-of-stream and on error.  *)
(***************************************************************************)
EXTENDS Integers, Sequences, FiniteSets, TLC

\* ------------------------------------------------------------------------
\* Natural numbers of any size: numerals in base Base, least significant
\* digit first, no leading zero digit (the empty numeral is 0)
\* ------------------------------------------------------------------------

\* binary places per digit
DigitBits == 15

Pow2 == <<1, 2, 4, 8, 16, 32, 64, 128, 256, 512, 1024, 2048, 4096, 8192,
          16384, 32768>>

\* 2^k for k in 0..DigitBits
TwoTo(k) ==
    Pow2[k + 1]

Base == TwoTo(DigitBits)

RECURSIVE BTrim(_)
BTrim(a) ==
    IF a = <<>> THEN <<>>
    ELSE IF a[Len(a)] = 0 THEN BTrim(SubSeq(a, 1, Len(a) - 1))
    ELSE a

BRest(a) ==
    IF a = <<>> THEN <<>> ELSE Tail(a)

BLow(a) ==
    IF a = <<>> THEN 0 ELSE Head(a)

RECURSIVE BAddC(_, _, _)
BAddC(a, b, c) ==
    IF a = <<>> /\ b = <<>>
    THEN (IF c = 0 THEN <<>> ELSE <<c>>)
    ELSE <<(BLow(a) + BLow(b) + c) % Base>>
         \o BAddC(BRest(a), BRest(b), (BLow(a) + BLow(b) + c) \div Base)

BAdd(a, b) ==
    BAddC(a, b, 0)

\* a - b for a >= b
RECURSIVE BSubC(_, _, _)
BSubC(a, b, c) ==
    IF a = <<>> THEN <<>>
    ELSE <<(BLow(a) - BLow(b) - c) % Base>>
         \o BSubC(BRest(a), BRest(b), IF BLow(a) - BLow(b) - c < 0 THEN 1 ELSE 0)

BSub(a, b) ==
    BTrim(BSubC(a, b, 0))

\* -1, 0, 1 as a < b, a = b, a > b
RECURSIVE BCmpFrom(_, _, _)
BCmpFrom(a, b, i) ==
    IF i = 0 THEN 0
    ELSE IF a[i] # b[i] THEN (IF a[i] > b[i] THEN 1 ELSE -1)
    ELSE BCmpFrom(a, b, i - 1)

BCmp(a, b) ==
    IF Len(a) # Len(b) THEN (IF Len(a) > Len(b) THEN 1 ELSE -1)
    ELSE BCmpFrom(a, b, Len(a))

RECURSIVE BFromInt(_)
BFromInt(n) ==
    IF n = 0 THEN <<>> ELSE <<n % Base>> \o BFromInt(n \div Base)

RECURSIVE BToInt(_)
BToInt(a) ==
    IF a = <<>> THEN 0 ELSE Head(a) + Base * BToInt(Tail(a))

\* a * n for an integer 0 <= n < Base
RECURSIVE BMulC(_, _, _)
BMulC(a, n, c) ==
    IF a = <<>> THEN (IF c = 0 THEN <<>> ELSE <<c>>)
    ELSE <<(Head(a) * n + c) % Base>>
         \o BMulC(Tail(a), n, (Head(a) * n + c) \div Base)

BMulInt(a, n) ==
    IF n = 0 THEN <<>> ELSE BMulC(a, n, 0)

\* long division of a by the integer 0 < d < Base, from digit i upward:
\* quotient and remainder
\* one step of it: r2 is the remainder of the higher digits, whose result is
\* hi, followed by the next digit
BDivDigit(hi, r2, d) ==
    [q |-> <<r2 \div d>> \o hi.q, r |-> r2 % d]

BDivStep(hi, digit, d) ==
    BDivDigit(hi, Base * hi.r + digit, d)

RECURSIVE BDivFrom(_, _, _)
BDivFrom(a, d, i) ==
    IF i > Len(a) THEN [q |-> <<>>, r |-> 0]
    ELSE BDivStep(BDivFrom(a, d, i + 1), a[i], d)

BDivTrim(x) ==
    [q |-> BTrim(x.q), r |-> x.r]

BDivInt(a, d) ==
    BDivTrim(BDivFrom(a, d, 1))

BZeros(k) ==
    [i \in 1..k |-> 0]

\* a * 2^k
BShl(a, k) ==
    IF a = <<>> THEN <<>>
    ELSE BZeros(k \div DigitBits) \o BMulInt(a, TwoTo(k % DigitBits))

\* floor(a / 2^k)
BShr(a, k) ==
    IF k \div DigitBits >= Len(a) THEN <<>>
    ELSE BDivInt(SubSeq(a, k \div DigitBits + 1, Len(a)), TwoTo(k % DigitBits)).q

\* the number of binary places of a: 0 for 0, else floor(log2 a) + 1
BBits(a) ==
    IF a = <<>> THEN 0
    ELSE DigitBits * (Len(a) - 1)
         + (CHOOSE k \in 1..DigitBits :
                TwoTo(k - 1) <= a[Len(a)] /\ a[Len(a)] < TwoTo(k))

\* a / 2^k rounded to an integer, ties to even; sticky = 1 says that a
\* nonzero part below a's unit was dropped before
\* the quotient q rounded up or not, c comparing the remainder with a half
BRoundUp(q, c, sticky) ==
    IF c > 0 \/ (c = 0 /\ (sticky = 1 \/ BLow(q) % 2 = 1))
    THEN BAddC(q, <<>>, 1)
    ELSE q

BRoundQuot(a, k, sticky, q) ==
    BRoundUp(q, BCmp(BSub(a, BShl(q, k)), BShl(<<1>>, k - 1)), sticky)

BRoundShr(a, k, sticky) ==
    IF k = 0 THEN a ELSE BRoundQuot(a, k, sticky, BShr(a, k))

\* a rounded to its p leading binary places of bits, ties to even
BRoundBits(a, p, sticky, bits) ==
    IF bits <= p THEN a
    ELSE BShl(BRoundShr(a, bits - p, sticky), bits - p)

\* a rounded to p significant binary places, ties to even
BRound(a, p, sticky) ==
    BRoundBits(a, p, sticky, BBits(a))

\* ------------------------------------------------------------------------
\* IEEE-754 doubles
\* ------------------------------------------------------------------------

\* binary places kept below the point
FracBits == 75
\* significant bits of a double
Mant == 53
\* extra quotient bits computed before a division is rounded
GuardBits == 8

FZero == [neg |-> FALSE, mag |-> <<>>]

FMake(neg, mag) ==
    IF mag = <<>> THEN FZero ELSE [neg |-> neg, mag |-> mag]

\* the double nearest to a / d, for a natural number a (a numeral) and an
\* integer 0 < d < Base
FQuotientOf(x) ==
    BShr(BRound(x.q, Mant, IF x.r = 0 THEN 0 ELSE 1), GuardBits)

FQuotient(a, d) ==
    FQuotientOf(BDivInt(BShl(a, FracBits + GuardBits), d))

\* the double nearest to n / d, for integers n and 0 < d < Base (an integer
\* literal n is n / 1; a quotient of two doubles holding integers is this too)
FRatio(n, d) ==
    FMake(n < 0, FQuotient(BFromInt(IF n < 0 THEN 0 - n ELSE n), d))

FInt(n) ==
    FRatio(n, 1)

\* -1, 0, 1 as x < y, x = y, x > y
FCmp(x, y) ==
    IF x.neg # y.neg THEN (IF x.neg THEN -1 ELSE 1)
    ELSE IF x.neg THEN BCmp(y.mag, x.mag)
    ELSE BCmp(x.mag, y.mag)

FGeq(x, y) ==
    FCmp(x, y) >= 0

FLt(x, y) ==
    FCmp(x, y) < 0

\* x + y in double arithmetic
FAdd(x, y) ==
    IF x.neg = y.neg
    THEN FMake(x.neg, BRound(BAdd(x.mag, y.mag), Mant, 0))
    ELSE IF BCmp(x.mag, y.mag) >= 0
    THEN FMake(x.neg, BRound(BSub(x.mag, y.mag), Mant, 0))
    ELSE FMake(y.neg, BRound(BSub(y.mag, x.mag), Mant, 0))

RECURSIVE Pow10(_)
Pow10(nd) ==
    IF nd = 0 THEN 1 ELSE 10 * Pow10(nd - 1)

\* |x| * 10^nd rounded to an integer, ties to even: the digits of x written
\* with nd decimals (as a numeral)
FDigits(x, nd) ==
    BRoundShr(BMulInt(x.mag, Pow10(nd)), FracBits, 0)

\* the same as an integer, for small x
FDecimal(x, nd) ==
    BToInt(FDigits(x, nd))

\* Python's round(x, nd): x correctly rounded to nd decimals, as a double
PyRound(x, nd) ==
    FMake(x.neg, FQuotient(FDigits(x, nd), Pow10(nd)))

\* ------------------------------------------------------------------------
\* Geometry helpers (src/zone_logic_simple.py).  A point is <<x, y>> in half
\* pixels.  A distance is kept exactly, as its square: the fraction n / d in
\* lowest terms, in half pixels squared.
\* ------------------------------------------------------------------------

None == <<>>

Some(v) == <<v>>

RECURSIVE Gcd(_, _)
Gcd(a, b) ==
    IF b = 0 THEN a ELSE Gcd(b, a % b)

DistOver(n, d, g) ==
    [n |-> n \div g, d |-> d \div g]

Dist(n, d) ==
    DistOver(n, d, Gcd(n, d))

DistLt(p, q) ==
    p.n * q.d < q.n * p.d

\* dist <= r for a length r in half pixels
DistLeq(p, r) ==
    r >= 0 /\ p.n <= r * r * p.d

\* poly[(i + 1) % n], vertices counted from 1
NextVertex(poly, i) ==
    poly[(i % Len(poly)) + 1]

\* the edge a-b crosses the ray from pt to the right.  The source compares
\*     x < (x2 - x1) * (y - y1) / (y2 - y1 + 1e-9) + x1 ;
\* with L = x - x1, A = (x2 - x1) * (y - y1), D = y2 - y1 (all integers, and
\* D # 0 here) this is L * (D + eps) < A for D > 0 and > A for D < 0, where
\* the term L * eps is far below 1 and decides only when L * D = A.
Intersects(pt, a, b) ==
    LET L == pt[1] - a[1]
        A == (b[1] - a[1]) * (pt[2] - a[2])
        D == b[2] - a[2]
    IN  /\ (a[2] > pt[2]) # (b[2] > pt[2])
        /\ IF D > 0 THEN L * D < A \/ (L * D = A /\ L < 0)
                    ELSE L * D > A \/ (L * D = A /\ L > 0)

point_in_polygon(pt, poly) ==
    Cardinality({i \in 1..Len(poly) :
                    Intersects(pt, poly[i], NextVertex(poly, i))}) % 2 = 1

\* geometry.py, line 13, with <= in place of <
GeomIntersects_Leq(pt, a, b) ==
    LET L == pt[1] - a[1]
        A == (b[1] - a[1]) * (pt[2] - a[2])
        D == b[2] - a[2]
    IN  /\ (a[2] > pt[2]) # (b[2] > pt[2])
        /\ IF D > 0 THEN L * D <= A ELSE L * D >= A

\* geometry.py, lines 12-13: dy is y2 - y1, or 1e-12 when that is 0; then the
\* first test fails, so where the second is evaluated dy = D # 0 and
\*     x < (x2 - x1) * (y - y1) / dy + x1
\* is L < A / D.  With integer coordinates the quotient and the sum are
\* either exact or not integers, so the doubles compare as the rationals do.
GeomIntersects(pt, a, b) ==
    LET L == pt[1] - a[1]
        A == (b[1] - a[1]) * (pt[2] - a[2])
        D == b[2] - a[2]
    IN  /\ (a[2] > pt[2]) # (b[2] > pt[2])
        /\ IF D > 0 THEN L * D < A ELSE L * D > A

\* geometry.point_in_polygon(p, poly)
geometry_point_in_polygon(pt, poly) ==
    Cardinality({i \in 1..Len(poly) :
                    GeomIntersects(pt, poly[i], NextVertex(poly, i))}) % 2 = 1

distance_point_to_segment(p, a, b) ==
    LET vx == b[1] - a[1]
        vy == b[2] - a[2]
        wx == p[1] - a[1]
        wy == p[2] - a[2]
        seg_len2 == vx * vx + vy * vy
        dot == wx * vx + wy * vy
    IN  IF seg_len2 = 0 THEN Dist(wx * wx + wy * wy, 1)
        ELSE IF dot <= 0 THEN Dist(wx * wx + wy * wy, 1)
        ELSE IF dot >= seg_len2
        THEN Dist((p[1] - b[1]) * (p[1] - b[1]) + (p[2] - b[2]) * (p[2] - b[2]), 1)
        ELSE Dist((wx * wx + wy * wy) * seg_len2 - dot * dot, seg_len2)

\* the minimum after the edges 1..i
DistMin(d, dmin) ==
    IF DistLt(d, dmin) THEN d ELSE dmin

RECURSIVE EdgeMin(_, _, _)
EdgeMin(pt, poly, i) ==
    IF i = 1 THEN distance_point_to_segment(pt, poly[1], NextVertex(poly, 1))
    ELSE DistMin(distance_point_to_segment(pt, poly[i], NextVertex(poly, i)),
                 EdgeMin(pt, poly, i - 1))

edge_distance(pt, poly) ==
    EdgeMin(pt, poly, Len(poly))

\* ------------------------------------------------------------------------
\* SimpleZoneMonitor (src/zone_logic_simple.py)
\* ------------------------------------------------------------------------

\* a bounding box is <<x, y, w, h>> in pixels; its bottom centre
\* (x + w / 2.0, y + h) in half pixels
\* a variant that takes the centre of the box, which C4 must reject
BottomCenter_BoxCentre(bbox) ==
    <<2 * bbox[1] + bbox[3], 2 * bbox[2] + bbox[4]>>

BottomCenter(bbox) ==
    <<2 * bbox[1] + bbox[3], 2 * (bbox[2] + bbox[4])>>

\* dt = 1.0 / max(self.cfg.fps, 1e-6); fps is an integer here, and
\* 1.0 / 1e-6 is the double 1000000.0
DefaultDt(c) ==
    IF c.fps >= 1 THEN FRatio(1, c.fps) ELSE FInt(1000000)

\* a variant that keeps the dwell on leaving the zone, which C2 must reject
DwellAfter_Kept(in_zone1, old, dt) ==
    IF in_zone1 THEN FAdd(old, dt) ELSE old

DwellAfter(in_zone1, old, dt) ==
    IF in_zone1 THEN FAdd(old, dt) ELSE FZero

\* a variant that alerts only above T_alert, which C3 must reject
Alert_Above(in_zone1, d, T_alert) ==
    in_zone1 /\ FCmp(d, T_alert) > 0

Alert(in_zone1, d, T_alert) ==
    in_zone1 /\ FGeq(d, T_alert)

Level(in_zone1, alert) ==
    IF ~in_zone1 THEN "SAFE"
    ELSE IF alert THEN "PREFALL_ALERT"
    ELSE "PREFALL_SHORT"

InZone1(inside, dist, d2_edge) ==
    inside /\ DistLeq(dist[1], d2_edge)

\* update(bbox, dt) on the monitor state m = [dwell, prev_in_zone1] built
\* from the configuration c: the new state and the returned dictionary
\* The steps of update follow the source's order; each takes the values
\* computed before it.

\* 5) the returned dictionary, and the state left behind
UpdateResult(in_zone1, d, alert, dist) ==
    [mon |-> [dwell |-> d, prev_in_zone1 |-> in_zone1],
     res |-> [in_zone1  |-> in_zone1,
              dwell     |-> PyRound(d, 3),
              alert     |-> alert,
              level     |-> Level(in_zone1, alert),
              edge_dist |-> dist]]

\* 4) with the alert held back once the dwell exceeds T_alert by the cooldown
UpdateAlert_Cooldown(c, in_zone1, d, dist) ==
    UpdateResult(in_zone1, d,
                 Alert(in_zone1, d, c.T_alert)
                     /\ FLt(d, FAdd(c.T_alert, FInt(c.cooldown_sec))),
                 dist)

\* 4) alert and level
UpdateAlert(c, in_zone1, d, dist) ==
    UpdateResult(in_zone1, d, Alert(in_zone1, d, c.T_alert), dist)

\* 3) dwell
UpdateDwell(c, m, step, in_zone1, dist) ==
    UpdateAlert(c, in_zone1, DwellAfter(in_zone1, m.dwell, step), dist)

\* 2) zone1: inside the bed and within d2_edge of its edge
UpdateZone(c, m, step, inside, dist) ==
    UpdateDwell(c, m, step, InZone1(inside, dist, c.d2_edge), dist)

\* 1) inside the polygon, and then the distance to its edge
UpdateInside(c, m, step, bottom_center, inside) ==
    UpdateZone(c, m, step, inside,
               IF inside THEN Some(edge_distance(bottom_center, c.bed_polygon))
                         ELSE None)

UpdateAt(c, m, step, bottom_center) ==
    UpdateInside(c, m, step, bottom_center,
                 point_in_polygon(bottom_center, c.bed_polygon))

update(c, m, bbox, dt) ==
    UpdateAt(c, m, IF dt = None THEN DefaultDt(c) ELSE dt[1], BottomCenter(bbox))

\* ------------------------------------------------------------------------
\* Status storage (src/storage.py).  A text is a sequence of characters.
\* The status file is absent, or holds text that is not JSON ("invalid"), a
\* JSON array or number, or a JSON object: doc maps its keys to its records.
\* ------------------------------------------------------------------------

Cam01 == <<"c", "a", "m", "0", "1">>

Cam02 == <<"c", "a", "m", "0", "2">>

DecimalDigits == <<"0", "1", "2", "3", "4", "5", "6", "7", "8", "9">>

\* str(n) for an integer n >= 0
RECURSIVE Digits(_)
Digits(n) ==
    IF n < 10 THEN <<DecimalDigits[n + 1]>>
    ELSE Digits(n \div 10) \o <<DecimalDigits[(n % 10) + 1]>>

\* str(n)
Str(n) ==
    IF n < 0 THEN <<"-">> \o Digits(0 - n) ELSE Digits(n)

\* f"{camera_id}:{track_id}"
StatusKey(camera_id, track_id) ==
    camera_id \o <<":">> \o Str(track_id)

EmptyDoc == [k \in {} |-> k]

FileOf(kind, doc) == [kind |-> kind, doc |-> doc]

AbsentFile == FileOf("absent", EmptyDoc)

\* data after lines 13-19: {} for no file and for text json.load rejects
\* (the exception is swallowed); what json.load returns otherwise, a dict
\* or not
LoadStatus(file) ==
    IF file.kind = "object" THEN [isdict |-> TRUE, doc |-> file.doc]
    ELSE IF file.kind \in {"absent", "invalid"} THEN [isdict |-> TRUE, doc |-> EmptyDoc]
    ELSE [isdict |-> FALSE, doc |-> EmptyDoc]

\* note or ""
NoteOr(note) ==
    IF note = None THEN "" ELSE note[1]

StatusRecord(now, camera_id, track_id, prefall, dw, note) ==
    [timestamp |-> now,
     camera    |-> camera_id,
     track_id  |-> track_id,
     prefall   |-> prefall,
     dwell_sec |-> PyRound(dw, 2),
     color     |-> IF prefall THEN "red" ELSE "green",
     note      |-> NoteOr(note)]

\* a variant that forgets the other keys, which C8 must reject
SetItem_Alone(doc, key, rec) ==
    [k \in {key} |-> rec]

\* data[key] = rec on a dict
SetItem(doc, key, rec) ==
    [k \in (DOMAIN doc) \cup {key} |-> IF k = key THEN rec ELSE doc[k]]

\* lines 22-32 on the loaded data: the item assignment raises TypeError on
\* anything but a dict; open(path, "w") raises OSError where the output
\* directory cannot be written; else the whole document is rewritten
StoreStatus(file, writable, data, key, rec) ==
    IF ~data.isdict THEN [file |-> file, exc |-> Some("TypeError")]
    ELSE IF ~writable THEN [file |-> file, exc |-> Some("OSError")]
    ELSE [file |-> FileOf("object", SetItem(data.doc, key, rec)), exc |-> None]

\* write_status on the file, at time now: the file left behind and the
\* exception raised, if any
write_status(file, writable, now, camera_id, track_id, prefall, dw, note) ==
    StoreStatus(file, writable, LoadStatus(file),
                StatusKey(camera_id, track_id),
                StatusRecord(now, camera_id, track_id, prefall, dw, note))

\* ------------------------------------------------------------------------
\* The per-frame probe (deepstream_test_4.py) and the console alert
\* (src/alerts.py).  A detection is [class_id, object_id, bbox]; a frame is
\* the sequence of its detections; a batch is a sequence of frames.
\* While it runs, the probe's effects are gathered in a record st: the
\* monitor's fields, the status file, the events so far, the exception in
\* flight (None if none), the update result of the detection at hand, and
\* the subjects' streaks.
\* ------------------------------------------------------------------------

PGIE_CLASS_ID_VEHICLE == 0

PGIE_CLASS_ID_PERSON == 2

Event(ev, id, data) == [ev |-> ev, id |-> id, data |-> data]

Emit(st, e) == [st EXCEPT !.trace = Append(@, e)]

\* console_alert(cam_id, track_id, level, detail) called with the positional
\* arguments args: a call with another number of arguments raises TypeError
\* before the body runs
console_alert(now, args) ==
    IF Len(args) # 4 THEN [line |-> None, exc |-> Some("TypeError")]
    ELSE [line |-> Some([ts |-> now, cam_id |-> args[1], track_id |-> args[2],
                         level |-> args[3], detail |-> args[4]]),
          exc  |-> None]

\* dt = 1.0 / fps_hint if fps_hint > 0 else 1.0 / 30.0
ProbeDt(fps_hint) ==
    IF fps_hint > 0 THEN FRatio(1, fps_hint) ELSE FRatio(1, 30)

\* the colours of PREFALL_SHORT and PREFALL_ALERT exchanged
BorderColor_Exchanged(level) ==
    IF level = "SAFE" THEN Some(<<0, 1, 0, 1>>)
    ELSE IF level = "PREFALL_SHORT" THEN Some(<<1, 0, 0, 1>>)
    ELSE IF level = "PREFALL_ALERT" THEN Some(<<1, 1, 0, 1>>)
    ELSE None

\* rect.border_color.set(...): green, yellow, red; no colour is set for
\* another level
BorderColor(level) ==
    IF level = "SAFE" THEN Some(<<0, 1, 0, 1>>)
    ELSE IF level = "PREFALL_SHORT" THEN Some(<<1, 1, 0, 1>>)
    ELSE IF level = "PREFALL_ALERT" THEN Some(<<1, 0, 0, 1>>)
    ELSE None

\* f"Person | {level} {dwell:.1f}s": the level and the dwell in tenths
DisplayText(level, dw) ==
    [level |-> level, tenths |-> FDecimal(dw, 1)]

\* whether the bottom centre of bbox lies in zone1 of c's bed
ZoneOfBox(c, bbox) ==
    /\ point_in_polygon(<<2 * bbox[1] + bbox[3], 2 * (bbox[2] + bbox[4])>>,
                        c.bed_polygon)
    /\ DistLeq(edge_distance(<<2 * bbox[1] + bbox[3], 2 * (bbox[2] + bbox[4])>>,
                             c.bed_polygon), c.d2_edge)

\* the subjects' streaks after a frame: one more for a subject detected in
\* zone1, none for a subject detected out of it; a frame without the subject
\* tells nothing about it
StreakAfter(c, old, frame) ==
    [id \in DOMAIN old |->
        IF \E i \in 1..Len(frame) : /\ frame[i].class_id = PGIE_CLASS_ID_PERSON
                                    /\ frame[i].object_id = id
                                    /\ ZoneOfBox(c, frame[i].bbox)
        THEN old[id] + 1
        ELSE IF \E i \in 1..Len(frame) : /\ frame[i].class_id = PGIE_CLASS_ID_PERSON
                                         /\ frame[i].object_id = id
        THEN 0
        ELSE old[id]]

RECURSIVE BatchStreak(_, _, _, _)
BatchStreak(c, old, batch, i) ==
    IF i > Len(batch) THEN old
    ELSE BatchStreak(c, StreakAfter(c, old, batch[i]), batch, i + 1)

\* a variant without the handler, which C7 must reject
Except_Propagates(st, label) ==
    st

\* except Exception as e: print(label, e)
Except(st, label) ==
    IF st.exc = None THEN st
    ELSE [st EXCEPT !.trace = Append(@, Event("print", 0,
                                              [text |-> label, exc |-> st.exc[1]])),
                    !.exc = None]

\* res = zone_monitor.update(bbox=bbox, dt=dt)
ObjMonitor(st, o, u) ==
    Emit([st EXCEPT !.dwell = u.mon.dwell,
                    !.prev_in_zone1 = u.mon.prev_in_zone1,
                    !.res = u.res],
         Event("update", o.object_id,
               [bbox |-> o.bbox, res |-> u.res, streak |-> st.streak[o.object_id]]))

\* the border and the label
ObjAnnotate(st, o) ==
    Emit(st, Event("annotate", o.object_id,
                   [border_width |-> 3,
                    border_color |-> BorderColor(st.res.level),
                    text         |-> DisplayText(st.res.level, st.res.dwell)]))

ObjStatus(st, o, w) ==
    Emit([st EXCEPT !.file = w.file, !.exc = w.exc],
         Event("write", o.object_id, [exc |-> w.exc]))

\* the status written with prefall = res["alert"]
TryStatus_Alert(st, ctx, o) ==
    Except(ObjStatus(st, o, write_status(st.file, ctx.writable, ctx.now,
                                         ctx.camera_id, o.object_id,
                                         st.res.alert, st.res.dwell, None)),
           "write_status error:")

\* try: write_status(OUTPUT_STATUS_PATH, ...) except ...
TryStatus(st, ctx, o) ==
    Except(ObjStatus(st, o, write_status(st.file, ctx.writable, ctx.now,
                                         ctx.camera_id, o.object_id,
                                         st.res.in_zone1, st.res.dwell, None)),
           "write_status error:")

ObjAlert(st, o, a) ==
    IF a.exc = None THEN Emit(st, Event("alert", o.object_id, a.line[1]))
    ELSE [st EXCEPT !.exc = a.exc]

\* if level == "PREFALL_ALERT": try: console_alert(camera_id, id, dwell) ...
TryAlert(st, ctx, o) ==
    IF st.exc # None \/ st.res.level # "PREFALL_ALERT" THEN st
    ELSE Except(ObjAlert(st, o, console_alert(ctx.now, <<ctx.camera_id, o.object_id,
                                                         st.res.dwell>>)),
                "console_alert error:")

\* one turn of the object loop without the test of the class id
ProcessObject_AnyClass(st, ctx, o) ==
    IF st.exc # None THEN st
    ELSE IF ctx.zone_monitor
    THEN TryAlert(TryStatus(ObjAnnotate(
             ObjMonitor(st, o, update(ctx.cfg,
                                      [dwell |-> st.dwell,
                                       prev_in_zone1 |-> st.prev_in_zone1],
                                      o.bbox, Some(ctx.dt))), o), ctx, o), ctx, o)
    ELSE st

\* one turn of the object loop
ProcessObject(st, ctx, o) ==
    IF st.exc # None THEN st
    ELSE IF o.class_id = ctx.person_class_id /\ ctx.zone_monitor
    THEN TryAlert(TryStatus(ObjAnnotate(
             ObjMonitor(st, o, update(ctx.cfg,
                                      [dwell |-> st.dwell,
                                       prev_in_zone1 |-> st.prev_in_zone1],
                                      o.bbox, Some(ctx.dt))), o), ctx, o), ctx, o)
    ELSE st

\* a variant that stops after a frame's first detection, which C10 must
\* reject
ProcessObjects_FirstOnly(st, ctx, frame, i) ==
    IF i > Len(frame) \/ i > 1 THEN st
    ELSE ProcessObject(st, ctx, frame[i])

RECURSIVE ProcessObjects(_, _, _, _)
ProcessObjects(st, ctx, frame, i) ==
    IF i > Len(frame) THEN st
    ELSE ProcessObjects(ProcessObject(st, ctx, frame[i]), ctx, frame, i + 1)

RECURSIVE ProcessFrames(_, _, _, _)
ProcessFrames(st, ctx, batch, i) ==
    IF i > Len(batch) THEN st
    ELSE ProcessFrames(
             ProcessObjects([st EXCEPT !.streak = StreakAfter(ctx.cfg, @, batch[i])],
                            ctx, batch[i], 1),
             ctx, batch, i + 1)

\* what the probe reads from u_data, with the monitor's configuration, the
\* time and the state of the output directory
ProbeContext(u, c, now, wr) ==
    [zone_monitor    |-> u.zone_monitor,
     camera_id       |-> u.camera_id,
     dt              |-> ProbeDt(u.fps_hint),
     person_class_id |-> u.person_class_id,
     cfg             |-> c,
     now             |-> now,
     writable        |-> wr]

\* return Gst.PadProbeReturn.OK, unless an exception leaves the probe
Returned(st) ==
    [ret |-> IF st.exc = None THEN "OK" ELSE "RAISED", st |-> st]

\* the probe on u_data (None or Some(context)) and the buffer buf
osd_sink_pad_buffer_probe(u_data, buf, st, c, now, wr) ==
    IF u_data = None THEN Returned(st)
    ELSE IF ~buf.present
    THEN Returned(Emit(st, Event("print", 0,
                                 [text |-> "Unable to get GstBuffer ", exc |-> ""])))
    ELSE IF buf.batch_meta = None THEN Returned(st)
    ELSE Returned(ProcessFrames(st, ProbeContext(u_data[1], c, now, wr),
                                buf.batch_meta[1], 1))

\* user_data as main builds it around the monitor of configuration c
MainContext(c) ==
    [zone_monitor    |-> TRUE,
     camera_id       |-> c.camera_id,
     fps_hint        |-> c.fps,
     person_class_id |-> PGIE_CLASS_ID_PERSON]

\* ------------------------------------------------------------------------
\* deepstream_test_4.py: parse_args, main and the module's entry point
\* ------------------------------------------------------------------------

\* the module's globals as the import leaves them
Globals0 ==
    [input_file  |-> None,
     schema_type |-> 0,
     proto_lib   |-> None,
     conn_str    |-> Some("localhost;2181;testTopic"),
     cfg_file    |-> None,
     topic       |-> None,
     no_display  |-> FALSE]

\* a command line: per option None when it is not given, else Some(value);
\* --no-display is a flag
CommandLine(input_file, proto_lib, conn_str, schema_type, topic, no_display) ==
    [cfg_file    |-> None,
     input_file  |-> input_file,
     proto_lib   |-> proto_lib,
     conn_str    |-> conn_str,
     schema_type |-> schema_type,
     topic       |-> topic,
     no_display  |-> no_display]

\* parser.parse_args(): the options, --schema-type with its default "0"
OptionValues(argv) ==
    [argv EXCEPT !.schema_type = IF argv.schema_type = None THEN Some("0")
                                 ELSE argv.schema_type]

\* the test "is not None" in place of the truth value
Truthy_NotNone(v) == v # None

\* the truth value of an option's value: None and "" are false
Truthy(v) == v # None /\ v[1] # ""

\* the globals assigned from the options
AssignOptions(g, options) ==
    [g EXCEPT !.cfg_file   = options.cfg_file,
              !.input_file = options.input_file,
              !.proto_lib  = options.proto_lib,
              !.conn_str   = options.conn_str,
              !.topic      = options.topic,
              !.no_display = options.no_display]

ParsedFrom(options, assigned) ==
    IF ~(Truthy(assigned.proto_lib) /\ Truthy(assigned.input_file))
    THEN [ret |-> Some(1), globals |-> assigned, usage |-> TRUE]
    ELSE [ret     |-> None,
          globals |-> [assigned EXCEPT !.schema_type =
                          IF options.schema_type = Some("0") THEN 0 ELSE 1],
          usage   |-> FALSE]

\* parse_args(): what it returns and the globals it leaves
parse_args(argv, g) ==
    ParsedFrom(OptionValues(argv), AssignOptions(g, OptionValues(argv)))

\* configs/zones/minimal_room.yaml: missing, not YAML, an empty document, or
\* a mapping, whose entries are None when the key is absent
ZoneFile(kind, data) == [kind |-> kind, data |-> data]

ZoneData(camera_id, fps, bed_polygon, d2_edge, T_alert, cooldown_sec) ==
    [camera_id    |-> camera_id,
     fps          |-> fps,
     bed_polygon  |-> bed_polygon,
     d2_edge      |-> d2_edge,
     T_alert      |-> T_alert,
     cooldown_sec |-> cooldown_sec]

\* dict.get(key, default)
GetOr(v, default) == IF v = None THEN default ELSE v[1]

\* load_zone_config(path): the configuration, or the exception raised
load_zone_config(file) ==
    CASE file.kind = "missing"     -> [cfg |-> None, exc |-> Some("FileNotFoundError")]
      [] file.kind = "unparseable" -> [cfg |-> None, exc |-> Some("YAMLError")]
      [] file.kind = "empty"       -> [cfg |-> None, exc |-> Some("AttributeError")]
      [] file.data.bed_polygon = None -> [cfg |-> None, exc |-> Some("KeyError")]
      [] OTHER ->
           [cfg |-> Some([camera_id    |-> GetOr(file.data.camera_id, Cam01),
                          fps          |-> GetOr(file.data.fps, 30),
                          bed_polygon  |-> file.data.bed_polygon[1],
                          d2_edge      |-> GetOr(file.data.d2_edge, 80),
                          T_alert      |-> GetOr(file.data.T_alert, FInt(10)),
                          cooldown_sec |-> GetOr(file.data.cooldown_sec, 30)]),
            exc |-> None]

\* main's progress: the zone configuration the monitor was built from, the
\* context built for the probe, the elements created,
\* the lines on standard error, the properties set, the elements added to
\* the pipeline, whether they are linked, the probe attached, the states
\* the pipeline was set to, what ended the event loop, the factory asked for
\* the sink, and the exception that ended main
MainState0 ==
    [zone_cfg |-> None, user_data |-> None, pipeline |-> FALSE, elements |-> {}, stderr |-> <<>>,
     props |-> <<>>, added |-> {}, linked |-> FALSE, probe |-> None,
     states |-> <<>>, loop_end |-> None, sink_factory |-> None, exc |-> None]

\* a step of main runs unless an exception has ended main
Unless(m, next) == IF m.exc # None THEN m ELSE next

\* lines 256-278 with a failed load logged and passed over
LoadedZone_Continue(m, loaded) ==
    IF loaded.exc # None THEN [m EXCEPT !.stderr = Append(@, [failed |-> loaded.exc[1]])]
    ELSE [m EXCEPT !.zone_cfg = loaded.cfg,
                   !.user_data = Some(MainContext(loaded.cfg[1]))]

\* lines 256-278
LoadedZone(m, loaded) ==
    IF loaded.exc # None THEN [m EXCEPT !.exc = loaded.exc]
    ELSE [m EXCEPT !.zone_cfg = loaded.cfg,
                   !.user_data = Some(MainContext(loaded.cfg[1]))]

LoadZone(m, file) == LoadedZone(m, load_zone_config(file))

\* the sink main asks the factory for
SinkFactory(no_display, platform) ==
    IF no_display THEN "fakesink"
    ELSE IF platform = "integrated" THEN "nv3dsink"
    ELSE IF platform = "aarch64" THEN "nv3dsink"
    ELSE "nveglglessink"

\* main's elements, in the order it creates them
Elements ==
    <<"source", "h264parser", "decoder", "streammux", "pgie", "nvvidconv",
      "nvosd", "msgconv", "msgbroker", "tee", "queue1", "queue2", "sink">>

\* Gst.ElementFactory.make and the test that follows it, for Elements[i..]
RECURSIVE MakeFrom(_, _, _)
MakeFrom(m, unavailable, i) ==
    IF i > Len(Elements) THEN m
    ELSE MakeFrom(IF Elements[i] \in unavailable
                  THEN [m EXCEPT !.stderr = Append(@, [unable |-> Elements[i]])]
                  ELSE [m EXCEPT !.elements = @ \cup {Elements[i]}],
                  unavailable, i + 1)

\* lines 289-366
CreateElements(m, unavailable, g, platform) ==
    Unless(m, MakeFrom([m EXCEPT !.pipeline = TRUE,
                                 !.sink_factory =
                                     Some(SinkFactory(g.no_display, platform))],
                       unavailable, 1))

Property(element, name, value) ==
    [element |-> element, name |-> name, value |-> value]

\* the set_property calls of lines 369-383
Properties(g) ==
    << Property("source", "location", g.input_file),
       Property("streammux", "batch-size", Some(1)),
       Property("msgconv", "payload-type", Some(g.schema_type)),
       Property("msgbroker", "proto-lib", g.proto_lib),
       Property("msgbroker", "conn-str", g.conn_str) >>
    \o (IF g.cfg_file # None
        THEN <<Property("msgbroker", "config", g.cfg_file)>> ELSE <<>>)
    \o (IF g.topic # None
        THEN <<Property("msgbroker", "topic", g.topic)>> ELSE <<>>)

\* element.set_property(...): AttributeError when the element is None
RECURSIVE SetFrom(_, _, _)
SetFrom(m, ps, i) ==
    IF i > Len(ps) THEN m
    ELSE IF ps[i].element \notin m.elements
    THEN [m EXCEPT !.exc = Some("AttributeError")]
    ELSE SetFrom([m EXCEPT !.props = Append(@, ps[i])], ps, i + 1)

\* lines 368-383
Configure(m, g) == Unless(m, SetFrom(m, Properties(g), 1))

\* lines 385-398: pipeline.add(element) raises TypeError for None
AddAll(m) ==
    Unless(m, IF \E i \in 1..Len(Elements) : Elements[i] \notin m.elements
              THEN [m EXCEPT !.exc = Some("TypeError")]
              ELSE [m EXCEPT !.added = m.elements])

\* lines 400-426
LinkAll(m) == Unless(m, [m EXCEPT !.linked = TRUE])

\* lines 429-443
AttachProbe(m) == Unless(m, [m EXCEPT !.probe = m.user_data])

\* pipeline.set_state(state)
SetState(m, state) == Unless(m, [m EXCEPT !.states = Append(@, state)])

\* main, up to the call of loop.run()
main_start(file, unavailable, platform, g) ==
    SetState(
      AttachProbe(
        LinkAll(
          AddAll(
            Configure(
              CreateElements(LoadZone(MainState0, file), unavailable, g, platform),
              g)))),
      "PLAYING")

\* what ends loop.run(): it returns, or raises
Returns(cause) == [cause |-> cause, raised |-> None]

Raises(cause, exception) == [cause |-> cause, raised |-> Some(exception)]

\* try: loop.run() with no "except:" clause
LoopRun_Uncaught(m, outcome) ==
    [m EXCEPT !.loop_end = Some(outcome.cause), !.exc = outcome.raised]

\* lines 449-452: try: loop.run() / except: pass
LoopRun(m, outcome) ==
    [m EXCEPT !.loop_end = Some(outcome.cause)]

\* main, from loop.run() to its return
main_finish(m, outcome) == SetState(LoopRun(m, outcome), "NULL")

\* the state the pipeline is in: the last one it was set to
PipelineState(m) ==
    IF m.states = <<>> THEN "NULL" ELSE m.states[Len(m.states)]

\* the status the process exits with: sys.exit(main(sys.argv)), or the
\* interpreter's 1 for an exception nothing caught
ExitStatus(m) == IF m.exc # None THEN 1 ELSE 0

\* the bus-message handler given to bus.connect: whether it quits the loop
bus_call(message) == message \in {"eos", "error"}

\* ------------------------------------------------------------------------
\* alerts.py: http_alert
\* ------------------------------------------------------------------------

\* an endpoint: a URL urllib can parse ("http://host:port/path"), one with
\* a scheme and no host ("http://"), or one without a scheme ("host/path")
Endpoint(kind, url) == [kind |-> kind, url |-> url]

\* what the network does with a request: the connection is refused, it times
\* out, the server answers with an error status, the connection is reset
\* while the body is read, or the server answers status and body
Refused == [kind |-> "refused", error |-> "URLError"]

TimedOut == [kind |-> "timeout", error |-> "TimeoutError"]

ServerError == [kind |-> "status", error |-> "HTTPError"]

Reset == [kind |-> "reset", error |-> "ConnectionResetError"]

Answer(status, body) == [kind |-> "answer", status |-> status, body |-> body]

\* line 8
Payload(now, cam_id, track_id, level, detail) ==
    [timestamp |-> now, camera_id |-> cam_id, track_id |-> track_id,
     level |-> level, detail |-> detail]

\* line 10: request.Request(endpoint, ...) raises ValueError for a URL
\* without a scheme
Request(endpoint, data) ==
    IF endpoint.kind = "noscheme"
    THEN [req |-> None, exc |-> Some("ValueError")]
    ELSE [req |-> Some([url |-> endpoint.url, data |-> data]), exc |-> None]

\* lines 12-13: request.urlopen(req, timeout) and resp.read()
UrlOpen(endpoint, network) ==
    IF endpoint.kind = "nohost" THEN [resp |-> None, exc |-> Some("URLError")]
    ELSE IF network.kind = "answer"
    THEN [resp |-> Some(<<network.status, network.body>>), exc |-> None]
    ELSE [resp |-> None, exc |-> Some(network.error)]

\* lines 11-16: the try statement
Posted(req, opened) ==
    IF opened.exc # None
    THEN [ret |-> None, exc |-> None, request |-> req,
          printed |-> <<[text |-> "[WARN] http_alert failed:", exc |-> opened.exc[1]]>>]
    ELSE [ret |-> opened.resp, exc |-> None, request |-> req, printed |-> <<>>]

\* http_alert(endpoint, cam_id, track_id, level, detail, timeout): what it
\* returns, the exception it raises, the request made and the lines printed
http_alert(endpoint, network, now, cam_id, track_id, level, detail) ==
    IF Request(endpoint, Payload(now, cam_id, track_id, level, detail)).exc # None
    THEN [ret |-> None, request |-> None, printed |-> <<>>,
          exc |-> Request(endpoint, Payload(now, cam_id, track_id, level, detail)).exc]
    ELSE Posted(Request(endpoint, Payload(now, cam_id, track_id, level, detail)).req,
                UrlOpen(endpoint, network))

\* ------------------------------------------------------------------------
\* State
\* ------------------------------------------------------------------------

VARIABLES
    cfg,            \* the ZoneConfig the monitor was built from
    dt_arg,         \* the dt argument callers pass to update: None or Some(dt)
    dwell,          \* SimpleZoneMonitor.dwell
    prev_in_zone1,  \* SimpleZoneMonitor.prev_in_zone1
    res,            \* the dictionary the last update call returned
    bbox_in,        \* the bbox the last update call was given
    run,            \* update calls in zone1 since the last call outside it
    prev_level,     \* the level returned by the call before the last one
    status_file,    \* the content of output/status.json
    writable,       \* whether the output directory can be written now
    clock,          \* the local time, in seconds
    file0,          \* the status file as the program found it
    ledger,         \* per key: the record last stored by write_status, and
                    \* how many times one was stored
    last_write,     \* the last write_status call: its key, the file before
                    \* it, whether the directory was writable, its exception
    writes,         \* write_status calls made directly so far
    probe_in,       \* the last probe invocation's u_data and buffer
    probe_ret,      \* what it returned
    trace,          \* what it did, in order: monitor updates, annotations,
                    \* status writes, lines printed
    streak,         \* per subject: the consecutive frames up to now in which
                    \* its reference point was in zone1
    probes          \* probe invocations so far

monVars == <<cfg, dt_arg, dwell, prev_in_zone1, res, bbox_in, run, prev_level>>

envVars == <<writable, clock>>

storeVars == <<status_file, file0, ledger, last_write, writes>>

probeVars == <<probe_in, probe_ret, trace, streak, probes>>

VARIABLES
    argv,           \* the command line, once parse_args has read it
    globals,        \* the module's globals
    host,           \* the machine: the zone configuration file, the elements
                    \* its plugin registry cannot make, its platform
    pc,             \* where the process is: "start", "parsed", "loop", "exited"
    mainst,         \* main's progress
    exit_status,    \* the status the process exited with
    messages        \* bus messages handled that did not end the loop

mainVars == <<argv, globals, host, pc, mainst, exit_status, messages>>

VARIABLES
    http_in,        \* the last http_alert call: its endpoint and what the
                    \* network did
    http_out,       \* what it returned, raised, requested and printed
    posts           \* http_alert calls so far

httpVars == <<http_in, http_out, posts>>

VARIABLES
    pip_poly,       \* the polygon point_in_polygon is called with
    pip_pt,         \* the point of the last call
    pip_out         \* what zone_logic_simple.point_in_polygon and
                    \* geometry.point_in_polygon returned for it

geomVars == <<pip_poly, pip_pt, pip_out>>

VARIABLES
    twin            \* a second SimpleZoneMonitor, fed the same calls: its
                    \* cfg, dwell, prev_in_zone1 and the last result

twinVars == <<twin>>

otherVars == <<mainVars, httpVars, geomVars, twinVars>>

vars == <<monVars, envVars, storeVars, probeVars, otherVars>>

\* ZoneConfig / ZoneThresholds: lengths in half pixels, T_alert a double
ZoneConfig(camera_id, fps, bed_polygon, d2_edge, T_alert, cooldown_sec) ==
    [camera_id    |-> camera_id,
     fps          |-> fps,
     bed_polygon  |-> bed_polygon,
     d2_edge      |-> d2_edge,
     T_alert      |-> T_alert,
     cooldown_sec |-> cooldown_sec]

\* SimpleZoneMonitor.__init__
MonitorInit ==
    /\ dwell = FZero
    /\ prev_in_zone1 = FALSE
    /\ res = None
    /\ bbox_in = None
    /\ run = 0
    /\ prev_level = "NONE"

\* the object ids the tracker gives: two persons and a vehicle
Subjects == {1, 2, 3}

\* the environment
EnvInit ==
    /\ writable = TRUE
    /\ clock = 0

\* the probe not yet invoked
ProbeInit ==
    /\ probe_in = None
    /\ probe_ret = "NONE"
    /\ trace = <<>>
    /\ streak = [id \in Subjects |-> 0]
    /\ probes = 0

\* a machine
Host(zone_file, unavailable, platform) ==
    [zone_file |-> zone_file, unavailable |-> unavailable, platform |-> platform]

\* a zone configuration file holding every key of c
FileOf_Config(c) ==
    ZoneFile("mapping",
             ZoneData(Some(c.camera_id), Some(c.fps), Some(c.bed_polygon),
                      Some(c.d2_edge), Some(c.T_alert), Some(c.cooldown_sec)))

\* the process not yet started, on one of the machines hosts
MainInit(hosts) ==
    /\ argv = None
    /\ globals = Globals0
    /\ host \in hosts
    /\ pc = "start"
    /\ mainst = MainState0
    /\ exit_status = None
    /\ messages = 0

\* point_in_polygon not yet called, with one of the polygons polys
GeomInit(polys) ==
    /\ pip_poly \in polys
    /\ pip_pt = None
    /\ pip_out = None

\* no second monitor
TwinInit == twin = None

\* http_alert not yet called
HttpInit ==
    /\ http_in = None
    /\ http_out = None
    /\ posts = 0

\* the operations called directly, outside a run of main
NoMain ==
    /\ MainInit({Host(ZoneFile("missing", None), {}, "other")})
    /\ HttpInit
    /\ GeomInit({<<>>})
    /\ TwinInit

\* a command line with the required options
RunLine ==
    CommandLine(Some("sample_720p.h264"), Some("libnvds_kafka_proto.so"),
                Some("broker;9092;beds"), None, None, TRUE)

\* main in its event loop, on a machine whose zone configuration is c
MainRunning(c) ==
    /\ argv = Some(RunLine)
    /\ globals = parse_args(RunLine, Globals0).globals
    /\ host = Host(FileOf_Config(c), {}, "other")
    /\ pc = "loop"
    /\ mainst = main_start(host.zone_file, host.unavailable, host.platform, globals)
    /\ exit_status = None
    /\ messages = 0
    /\ HttpInit
    /\ GeomInit({<<>>})
    /\ TwinInit

StoreInit(files) ==
    /\ status_file \in files
    /\ file0 = status_file
    /\ ledger = EmptyDoc
    /\ last_write = None
    /\ writes = 0

\* the bed of the examples: the rectangle (0,0)-(8,6) px
RectBed == <<<<0, 0>>, <<16, 0>>, <<16, 12>>, <<0, 12>>>>

\* a triangular bed: (1,0), (7,2), (3,6) px
TriBed == <<<<2, 0>>, <<14, 4>>, <<6, 12>>>>

\* ------------------------------------------------------------------------
\* The monitor called directly: zone_monitor.update(bbox, dt)
\* ------------------------------------------------------------------------

\* longest run of calls in zone1 that is explored
MaxRun == 302

\* the same, where the geometry is explored on a grid of boxes
MaxZoneRun == 1

\* the call's effect u = [mon, res] stored
Updated(bbox, u) ==
    /\ dwell' = u.mon.dwell
    /\ prev_in_zone1' = u.mon.prev_in_zone1
    /\ res' = Some(u.res)
    /\ run' = IF u.res.in_zone1 THEN run + 1 ELSE 0
    /\ bbox_in' = Some(bbox)
    /\ prev_level' = IF res = None THEN "NONE" ELSE res[1].level
    /\ UNCHANGED <<cfg, dt_arg, envVars, storeVars, probeVars, otherVars>>

Update(bbox, cap) ==
    /\ run < cap
    /\ Updated(bbox, update(cfg, [dwell |-> dwell, prev_in_zone1 |-> prev_in_zone1],
                            bbox, dt_arg))

\* Timing: the default thresholds' T_alert = 10 s at 30 fps, and shorter
\* configurations, each with a fixed step; update takes any number as dt,
\* so one caller passes a negative step
TimingScenarios ==
    { [cfg |-> ZoneConfig(Cam01, 30, RectBed, 3, FInt(10), 30), dt |-> None],
      [cfg |-> ZoneConfig(Cam01, 10, RectBed, 3, FInt(1), 30),  dt |-> None],
      [cfg |-> ZoneConfig(Cam01, 4, RectBed, 3, FInt(1), 30),   dt |-> None],
      [cfg |-> ZoneConfig(Cam01, 30, RectBed, 3, FRatio(5, 4), 30),
       dt  |-> Some(FRatio(1, 2))],
      [cfg |-> ZoneConfig(Cam01, 4, RectBed, 3, FInt(1), 30),
       dt  |-> Some(FRatio(-1, 2))] }

\* boxes whose bottom centre is: in zone1 (1 px from the left edge), on the
\* zone's inner boundary (1.5 px = d2_edge), inside but far from every edge,
\* right of the bed, below the bed
TimingBoxes ==
    { <<0, 1, 2, 2>>, <<1, 1, 1, 2>>, <<3, 1, 2, 2>>, <<9, 1, 2, 2>>,
      <<3, 5, 2, 2>> }

InitMonitor ==
    /\ \E s \in TimingScenarios : cfg = s.cfg /\ dt_arg = s.dt
    /\ MonitorInit
    /\ EnvInit
    /\ ProbeInit
    /\ StoreInit({AbsentFile})
    /\ NoMain

NextMonitor ==
    \E bbox \in TimingBoxes : Update(bbox, MaxRun)

SpecMonitor == InitMonitor /\ [][NextMonitor]_vars

\* Geometry: both beds, an edge band of no width and one of 1 px, a grid of
\* boxes
ZoneScenarios ==
    { [cfg |-> ZoneConfig(Cam01, 4, bed, d2, FRatio(1, 2), 30), dt |-> None] :
        bed \in {RectBed, TriBed}, d2 \in {0, 2} }

\* narrow tall boxes and wide flat ones, over and around the bed
GridBoxes ==
    { <<x, y, s[1], s[2]>> : x \in -1..8, y \in -1..5, s \in {<<1, 2>>, <<2, 1>>} }

InitZone ==
    /\ \E s \in ZoneScenarios : cfg = s.cfg /\ dt_arg = s.dt
    /\ MonitorInit
    /\ EnvInit
    /\ ProbeInit
    /\ StoreInit({AbsentFile})
    /\ NoMain

NextZone ==
    \E bbox \in GridBoxes : Update(bbox, MaxZoneRun)

SpecZone == InitZone /\ [][NextZone]_vars

\* ------------------------------------------------------------------------
\* The environment
\* ------------------------------------------------------------------------

\* latest second the clock reaches
MaxClock == 1

Tick ==
    /\ clock < MaxClock
    /\ clock' = clock + 1
    /\ UNCHANGED <<writable, monVars, storeVars, probeVars, otherVars>>

\* the output directory is made read-only, or writable again
SetWritable ==
    /\ writable' = ~writable
    /\ UNCHANGED <<clock, monVars, storeVars, probeVars, otherVars>>

\* ------------------------------------------------------------------------
\* The store called directly: write_status(path, ...)
\* ------------------------------------------------------------------------

\* most write_status calls explored
MaxWrites == 3

\* the thresholds of the probe's scenarios: 4 frames a second, alert after
\* half a second
ProbeConfig == ZoneConfig(Cam01, 4, RectBed, 3, FRatio(1, 2), 30)

\* a document written by an earlier run
PriorDoc ==
    SetItem(SetItem(EmptyDoc, StatusKey(Cam01, 1),
                    StatusRecord(0, Cam01, 1, TRUE, FInt(3), None)),
            StatusKey(Cam01, 7),
            StatusRecord(0, Cam01, 7, FALSE, FZero, None))

InitialFiles ==
    { AbsentFile, FileOf("invalid", EmptyDoc), FileOf("array", EmptyDoc),
      FileOf("number", EmptyDoc), FileOf("object", EmptyDoc),
      FileOf("object", PriorDoc) }

\* camera_id, track_id, prefall, dwell, note
StatusInputs ==
    { <<Cam01, 1, TRUE, FRatio(1, 4), None>>,
      <<Cam01, 1, FALSE, FZero, None>>,
      <<Cam01, 2, TRUE, FRatio(201, 200), Some("near edge")>>,
      <<Cam01, 12, FALSE, FZero, Some("")>>,
      <<Cam02, 1, TRUE, FRatio(1, 4), None>> }

\* the call's effect w = [file, exc] stored
Wrote(key, rec, w) ==
    /\ status_file' = w.file
    /\ ledger' = IF w.exc # None THEN ledger
                 ELSE [k \in (DOMAIN ledger) \cup {key} |->
                          IF k # key THEN ledger[k]
                          ELSE [rec |-> rec,
                                n   |-> IF key \in DOMAIN ledger
                                        THEN ledger[key].n + 1 ELSE 1]]
    /\ last_write' = Some([key |-> key, rec |-> rec, before |-> status_file,
                           writable |-> writable, exc |-> w.exc])
    /\ writes' = writes + 1
    /\ UNCHANGED <<file0, monVars, envVars, probeVars, otherVars>>

WriteStatus(camera_id, track_id, prefall, dw, note) ==
    /\ writes < MaxWrites
    /\ Wrote(StatusKey(camera_id, track_id),
             StatusRecord(clock, camera_id, track_id, prefall, dw, note),
             write_status(status_file, writable, clock,
                          camera_id, track_id, prefall, dw, note))

InitStore ==
    /\ cfg = ProbeConfig
    /\ dt_arg = None
    /\ MonitorInit
    /\ EnvInit
    /\ ProbeInit
    /\ StoreInit(InitialFiles)
    /\ NoMain

NextStore ==
    \/ \E a \in StatusInputs : WriteStatus(a[1], a[2], a[3], a[4], a[5])
    \/ Tick
    \/ SetWritable

SpecStore == InitStore /\ [][NextStore]_vars

\* ------------------------------------------------------------------------
\* The probe invoked by the pipeline, once per buffer
\* ------------------------------------------------------------------------

\* most probe invocations explored
MaxProbes == 2

\* a box whose bottom centre is in zone1, and one right of the bed
InBox == <<0, 1, 2, 2>>

OutBox == <<9, 1, 2, 2>>

Detection(class_id, object_id, bbox) ==
    [class_id |-> class_id, object_id |-> object_id, bbox |-> bbox]

Person(id, bbox) == Detection(PGIE_CLASS_ID_PERSON, id, bbox)

Car == Detection(PGIE_CLASS_ID_VEHICLE, 3, InBox)

Frames ==
    { <<>>,
      <<Person(1, InBox)>>,
      <<Person(1, OutBox)>>,
      <<Car>>,
      <<Person(1, InBox), Person(2, InBox)>>,
      <<Person(1, InBox), Person(2, OutBox)>>,
      <<Person(2, OutBox), Person(1, InBox)>>,
      <<Car, Person(1, InBox)>> }

Batches ==
    { <<f>> : f \in Frames }
    \cup { << <<Person(1, InBox)>>, <<Person(1, InBox)>> >>,
           << <<Person(1, InBox), Person(2, InBox)>>, <<Person(1, OutBox)>> >> }

NoBuffer == [present |-> FALSE, batch_meta |-> None]

Buffer(batch_meta) == [present |-> TRUE, batch_meta |-> batch_meta]

\* u_data and buffer of an invocation: no context; a context without the
\* monitor; main's context with no buffer, no batch metadata, or a batch
ProbeInputs ==
    { <<None, Buffer(Some(<< <<Person(1, InBox)>> >>))>>,
      <<Some([MainContext(cfg) EXCEPT !.zone_monitor = FALSE]),
        Buffer(Some(<< <<Person(1, InBox)>> >>))>> }
    \cup { <<mainst.probe, b>> :
             b \in {NoBuffer, Buffer(None)} \cup { Buffer(Some(x)) : x \in Batches } }

\* the invocation's effect r = [ret, st] stored
Probed(u_data, buf, r) ==
    /\ probe_in' = Some([u_data |-> u_data, buf |-> buf])
    /\ probe_ret' = r.ret
    /\ trace' = r.st.trace
    /\ dwell' = r.st.dwell
    /\ prev_in_zone1' = r.st.prev_in_zone1
    /\ status_file' = r.st.file
    /\ streak' = IF u_data = None \/ ~u_data[1].zone_monitor \/ buf.batch_meta = None
                 THEN streak
                 ELSE BatchStreak(cfg, streak, buf.batch_meta[1], 1)
    /\ probes' = probes + 1
    /\ UNCHANGED <<cfg, dt_arg, res, bbox_in, run, prev_level, envVars,
                   file0, ledger, last_write, writes, otherVars>>

Probe(u_data, buf) ==
    /\ probes < MaxProbes
    /\ Probed(u_data, buf,
              osd_sink_pad_buffer_probe(
                  u_data, buf,
                  [dwell |-> dwell, prev_in_zone1 |-> prev_in_zone1,
                   file |-> status_file, trace |-> <<>>, exc |-> None,
                   res |-> None, streak |-> streak],
                  cfg, clock, writable))

Init ==
    /\ cfg = ProbeConfig
    /\ dt_arg = None
    /\ MonitorInit
    /\ EnvInit
    /\ ProbeInit
    /\ StoreInit({AbsentFile, FileOf("array", EmptyDoc)})
    /\ MainRunning(cfg)

Next ==
    \/ \E x \in ProbeInputs : Probe(x[1], x[2])
    \/ Tick
    \/ SetWritable

Spec == Init /\ [][Next]_vars

\* the same at 8 frames a second, where the dwell has three decimals: alert
\* after a quarter of a second
FineConfig == ZoneConfig(Cam01, 8, RectBed, 3, FRatio(1, 4), 30)

InitFine ==
    /\ cfg = FineConfig
    /\ dt_arg = None
    /\ MonitorInit
    /\ EnvInit
    /\ ProbeInit
    /\ StoreInit({AbsentFile, FileOf("array", EmptyDoc)})
    /\ MainRunning(cfg)

SpecFine == InitFine /\ [][Next]_vars

\* ------------------------------------------------------------------------
\* The process from its start to its exit
\* ------------------------------------------------------------------------

\* most bus messages explored that do not end the loop
MaxMessages == 1

InputFiles == {None, Some(""), Some("sample_720p.h264")}

ProtoLibs == {None, Some(""), Some("libnvds_kafka_proto.so")}

ConnStrs == {None, Some("broker;9092;beds")}

SchemaTypes == {None, Some("0"), Some("1"), Some("2"), Some("00")}

CommandLines ==
    { CommandLine(i, p, c, s, None, d) :
        i \in InputFiles, p \in ProtoLibs, c \in ConnStrs, s \in SchemaTypes,
        d \in BOOLEAN }

\* the zone configuration file: missing, not YAML, empty, without bed_polygon,
\* with every key, with bed_polygon alone
ZoneFiles ==
    { ZoneFile("missing", None), ZoneFile("unparseable", None),
      ZoneFile("empty", None),
      ZoneFile("mapping", ZoneData(Some(Cam01), Some(4), None, Some(3),
                                   Some(FRatio(1, 2)), Some(30))),
      FileOf_Config(ProbeConfig),
      ZoneFile("mapping", ZoneData(None, None, Some(RectBed), None, None, None)) }

Platforms == {"integrated", "aarch64", "other"}

Hosts ==
    { Host(f, u, p) :
        f \in ZoneFiles,
        u \in {{}} \cup { {Elements[i]} : i \in 1..Len(Elements) },
        p \in Platforms }

\* the process ends
Exited(status) ==
    /\ pc' = "exited"
    /\ exit_status' = Some(status)

\* __main__, lines 509-512: parse_args() and the exit on its failure
ParseArgs(line) ==
    /\ pc = "start"
    /\ argv' = Some(line)
    /\ globals' = parse_args(line, globals).globals
    /\ IF parse_args(line, globals).ret = Some(1)
       THEN Exited(1)
       ELSE pc' = "parsed" /\ UNCHANGED exit_status
    /\ UNCHANGED <<host, mainst, messages, monVars, envVars, storeVars, probeVars, httpVars,
                   geomVars, twinVars>>

\* main reached loop.run(), or an exception ended it
Started(m) ==
    /\ mainst' = m
    /\ cfg' = IF m.zone_cfg # None THEN m.zone_cfg[1] ELSE cfg
    /\ IF m.exc # None
       THEN Exited(ExitStatus(m))
       ELSE pc' = "loop" /\ UNCHANGED exit_status
    /\ UNCHANGED <<argv, globals, host, messages, dt_arg, dwell, prev_in_zone1,
                   res, bbox_in, run, prev_level, envVars, storeVars, probeVars, httpVars,
                   geomVars, twinVars>>

\* __main__, line 513: main(sys.argv), up to loop.run()
MainStart ==
    /\ pc = "parsed"
    /\ Started(main_start(host.zone_file, host.unavailable, host.platform, globals))

\* loop.run() ended: the rest of main, and the exit
Finished(m) ==
    /\ mainst' = m
    /\ Exited(ExitStatus(m))
    /\ UNCHANGED <<argv, globals, host, messages, monVars, envVars, storeVars,
                   probeVars, httpVars,
                   geomVars, twinVars>>

\* the bus delivers a message to bus_call
BusMessage(message) ==
    /\ pc = "loop"
    /\ IF bus_call(message)
       THEN Finished(main_finish(mainst, Returns(message)))
       ELSE /\ messages < MaxMessages
            /\ messages' = messages + 1
            /\ UNCHANGED <<argv, globals, host, pc, mainst, exit_status,
                           monVars, envVars, storeVars, probeVars, httpVars,
                   geomVars, twinVars>>

\* Ctrl-C, or an exception of a callback, raised out of loop.run()
LoopRaises(cause, exception) ==
    /\ pc = "loop"
    /\ Finished(main_finish(mainst, Raises(cause, exception)))

\* a buffer reaches the sink pad of nvosd: the probe attached there runs
Frame(buf) ==
    /\ pc = "loop"
    /\ PipelineState(mainst) = "PLAYING"
    /\ mainst.probe # None
    /\ Probe(mainst.probe, buf)

BusMessages == {"eos", "error", "warning", "state-changed"}

FrameBuffers ==
    { Buffer(Some(<< <<Person(1, InBox)>> >>)), Buffer(Some(<< <<Car>> >>)) }

InitMain ==
    /\ cfg = None
    /\ dt_arg = None
    /\ MonitorInit
    /\ EnvInit
    /\ ProbeInit
    /\ StoreInit({AbsentFile})
    /\ MainInit(Hosts)
    /\ HttpInit
    /\ GeomInit({<<>>})
    /\ TwinInit

NextMain ==
    \/ \E line \in CommandLines : ParseArgs(line)
    \/ MainStart
    \/ \E message \in BusMessages : BusMessage(message)
    \/ LoopRaises("interrupt", "KeyboardInterrupt")
    \/ LoopRaises("exception", "RuntimeError")
    \/ \E buf \in FrameBuffers : Frame(buf)

SpecMain == InitMain /\ [][NextMain]_vars

\* ------------------------------------------------------------------------
\* The HTTP alert called directly: http_alert(endpoint, ...)
\* ------------------------------------------------------------------------

\* most http_alert calls explored
MaxPosts == 2

Endpoints ==
    { Endpoint("url", "http://127.0.0.1:8080/alert"), Endpoint("nohost", "http://"),
      Endpoint("noscheme", "127.0.0.1:8080/alert") }

Networks ==
    { Refused, TimedOut, ServerError, Reset, Answer(200, "ok"), Answer(204, "") }

\* the call's effect r stored
HttpAlerted(endpoint, network, r) ==
    /\ http_in' = Some([endpoint |-> endpoint, network |-> network])
    /\ http_out' = Some(r)
    /\ posts' = posts + 1
    /\ UNCHANGED <<monVars, envVars, storeVars, probeVars, mainVars,
                   geomVars, twinVars>>

HttpAlert(endpoint, network, track_id, level) ==
    /\ posts < MaxPosts
    /\ HttpAlerted(endpoint, network,
                   http_alert(endpoint, network, clock, Cam01, track_id, level,
                              "dwell in zone1"))

InitAlert ==
    /\ cfg = ProbeConfig
    /\ dt_arg = None
    /\ MonitorInit
    /\ EnvInit
    /\ ProbeInit
    /\ StoreInit({AbsentFile})
    /\ NoMain

NextAlert ==
    \/ \E e \in Endpoints, n \in Networks, t \in Subjects,
          l \in {"PREFALL_SHORT", "PREFALL_ALERT"} : HttpAlert(e, n, t, l)
    \/ Tick

SpecAlert == InitAlert /\ [][NextAlert]_vars

\* ------------------------------------------------------------------------
\* Both point_in_polygon functions called directly
\* ------------------------------------------------------------------------

\* the grid of points: coordinates from -MaxCoord to MaxCoord
MaxCoord == 12

\* the axis-aligned rectangle with corners (x1, y1) and (x2, y2),
\* anticlockwise from (x1, y1), and clockwise
Rect(x1, y1, x2, y2) == <<<<x1, y1>>, <<x2, y1>>, <<x2, y2>>, <<x1, y2>>>>

RectCw(x1, y1, x2, y2) == <<<<x1, y1>>, <<x1, y2>>, <<x2, y2>>, <<x2, y1>>>>

Rectangles ==
    { Rect(0, 0, 10, 10), RectCw(0, 0, 10, 10), Rect(-4, -2, 3, 1),
      RectCw(2, -7, 11, 6), Rect(5, 5, 6, 6) }

GridPoints == { <<x, y>> : x \in -MaxCoord..MaxCoord, y \in -MaxCoord..MaxCoord }

\* both functions called with pt and the polygon; they keep no state, so one
\* call in a behaviour shows all they do
Locate(pt) ==
    /\ pip_pt = None
    /\ pip_pt' = Some(pt)
    /\ pip_out' = Some([zone |-> point_in_polygon(pt, pip_poly),
                        geom |-> geometry_point_in_polygon(pt, pip_poly)])
    /\ UNCHANGED <<pip_poly, monVars, envVars, storeVars, probeVars, mainVars,
                   httpVars, twinVars>>

InitGeom ==
    /\ cfg = ProbeConfig
    /\ dt_arg = None
    /\ MonitorInit
    /\ EnvInit
    /\ ProbeInit
    /\ StoreInit({AbsentFile})
    /\ MainInit({Host(ZoneFile("missing", None), {}, "other")})
    /\ HttpInit
    /\ GeomInit(Rectangles)
    /\ TwinInit

NextGeom ==
    \E pt \in GridPoints : Locate(pt)

SpecGeom == InitGeom /\ [][NextGeom]_vars

\* ------------------------------------------------------------------------
\* Two monitors that differ in cooldown_sec, called with the same arguments
\* ------------------------------------------------------------------------

\* longest run of calls in zone1 explored with two monitors
MaxTwinRun == 3

\* SimpleZoneMonitor(c)
Monitor(c) ==
    [cfg |-> c, dwell |-> FZero, prev_in_zone1 |-> FALSE, res |-> None]

TwinConfigs ==
    { ZoneConfig(Cam01, 4, RectBed, 3, FRatio(1, 2), 30),
      ZoneConfig(Cam01, 4, RectBed, 3, FInt(1), 30) }

Cooldowns == {0, 30, 60}

TwinSteps == {None, Some(FRatio(1, 2)), Some(FRatio(1, 4))}

\* both calls' effects u and u2 stored
UpdatedBoth(bbox, dt, u, u2) ==
    /\ dwell' = u.mon.dwell
    /\ prev_in_zone1' = u.mon.prev_in_zone1
    /\ res' = Some(u.res)
    /\ run' = IF u.res.in_zone1 THEN run + 1 ELSE 0
    /\ bbox_in' = Some(bbox)
    /\ prev_level' = IF res = None THEN "NONE" ELSE res[1].level
    /\ dt_arg' = dt
    /\ twin' = Some([twin[1] EXCEPT !.dwell = u2.mon.dwell,
                                    !.prev_in_zone1 = u2.mon.prev_in_zone1,
                                    !.res = Some(u2.res)])
    /\ UNCHANGED <<cfg, envVars, storeVars, probeVars, mainVars, httpVars, geomVars>>

\* update(bbox, dt) on both monitors
UpdateBoth(bbox, dt) ==
    /\ run < MaxTwinRun
    /\ UpdatedBoth(bbox, dt,
                   update(cfg, [dwell |-> dwell, prev_in_zone1 |-> prev_in_zone1],
                          bbox, dt),
                   update(twin[1].cfg,
                          [dwell |-> twin[1].dwell,
                           prev_in_zone1 |-> twin[1].prev_in_zone1],
                          bbox, dt))

InitCooldown ==
    /\ cfg \in TwinConfigs
    /\ dt_arg = None
    /\ MonitorInit
    /\ EnvInit
    /\ ProbeInit
    /\ StoreInit({AbsentFile})
    /\ MainInit({Host(ZoneFile("missing", None), {}, "other")})
    /\ HttpInit
    /\ pip_poly = <<>> /\ pip_pt = None /\ pip_out = None
    /\ \E cd \in Cooldowns \ {cfg.cooldown_sec} :
          twin = Some(Monitor([cfg EXCEPT !.cooldown_sec = cd]))

NextCooldown ==
    \E bbox \in TimingBoxes, dt \in TwinSteps : UpdateBoth(bbox, dt)

SpecCooldown == InitCooldown /\ [][NextCooldown]_vars

\* ------------------------------------------------------------------------
\* Claims about the monitor
\* ------------------------------------------------------------------------

Called == res # None

\* the step a call adds: the dt argument, or the default from fps
StepOf == IF dt_arg = None THEN DefaultDt(cfg) ELSE dt_arg[1]

\* whether the bottom centre of bbox lies in zone1 of the configured bed
InZoneOf(bbox) ==
    LET pt == <<2 * bbox[1] + bbox[3], 2 * (bbox[2] + bbox[4])>>
    IN  /\ point_in_polygon(pt, cfg.bed_polygon)
        /\ DistLeq(edge_distance(pt, cfg.bed_polygon), cfg.d2_edge)

\* C1 (as claimed): in a run of consecutive in-zone calls from dwell 0 with a
\* fixed step, the level is PREFALL_SHORT while the accumulated dwell is below
\* T_alert and PREFALL_ALERT from the first call on at which it reaches
\* T_alert; for dt = 1/30 and T_alert = 10 that first call is call 300.
C1_AlertAtCall300 ==
    (Called /\ run >= 1) =>
        /\ res[1].level = IF FGeq(dwell, cfg.T_alert) THEN "PREFALL_ALERT"
                                                     ELSE "PREFALL_SHORT"
        /\ (cfg.fps = 30 /\ dt_arg = None /\ cfg.T_alert = FInt(10)) =>
              (res[1].level = IF run >= 300 THEN "PREFALL_ALERT"
                                            ELSE "PREFALL_SHORT")

\* C2: a call whose reference point is not in zone1 sets dwell to exactly 0
\* and returns SAFE, alert false and dwell 0 on that call, whatever dwell had
\* accumulated; an in-zone call right after it (or first of all) leaves
\* dwell = dt.
C2_ResetOnExit ==
    Called =>
        /\ ~InZoneOf(bbox_in[1]) =>
              /\ dwell = FZero
              /\ res[1].level = "SAFE"
              /\ res[1].alert = FALSE
              /\ res[1].dwell = FZero
        /\ run = 1 => dwell = StepOf

\* C2 witness: a call outside zone1 right after a call that returned
\* PREFALL_ALERT
C2_Witness ==
    /\ Called
    /\ prev_level = "PREFALL_ALERT"
    /\ ~InZoneOf(bbox_in[1])
    /\ res[1].level = "SAFE"

\* C3: the returned level is one of the three, decided by the state after the
\* update: SAFE iff not in zone1, PREFALL_ALERT iff in zone1 with
\* dwell >= T_alert, PREFALL_SHORT iff in zone1 with dwell < T_alert; alert
\* is true iff the level is PREFALL_ALERT.
C3_LevelByState ==
    Called =>
        LET r == res[1]
        IN  /\ r.level \in {"SAFE", "PREFALL_SHORT", "PREFALL_ALERT"}
            /\ r.in_zone1 = InZoneOf(bbox_in[1])
            /\ (r.level = "SAFE") <=> ~r.in_zone1
            /\ (r.level = "PREFALL_ALERT") <=>
                    (r.in_zone1 /\ FGeq(dwell, cfg.T_alert))
            /\ (r.level = "PREFALL_SHORT") <=>
                    (r.in_zone1 /\ FLt(dwell, cfg.T_alert))
            /\ r.alert <=> (r.level = "PREFALL_ALERT")

\* C3 witness: an in-zone call that leaves dwell exactly equal to T_alert
C3_Witness ==
    /\ Called
    /\ res[1].in_zone1
    /\ dwell = cfg.T_alert
    /\ res[1].level = "PREFALL_ALERT"

\* the reference point of the last call, recomputed from its bbox:
\* (x + w/2, y + h) in half pixels
RefPoint == <<2 * bbox_in[1][1] + bbox_in[1][3], 2 * (bbox_in[1][2] + bbox_in[1][4])>>

Min2(a, b) == IF a <= b THEN a ELSE b

\* distance from a point of the rectangular bed to its nearest side
RectDepth(pt) == Min2(Min2(pt[1], 16 - pt[1]), Min2(pt[2], 12 - pt[2]))

\* C4: zone membership is decided from the bottom centre (x + w/2, y + h) of
\* the box: in_zone1 iff that point is inside the bed polygon and its distance
\* to the nearest edge is <= d2_edge (boundary included); outside the polygon
\* in_zone1 is false and edge_dist is None; inside but farther than d2_edge
\* in_zone1 is false and edge_dist is the distance.  On the rectangular bed
\* the distance is the depth of the point below the nearest side.
C4_ZoneMembership ==
    Called =>
        LET r      == res[1]
            pt     == RefPoint
            inside == point_in_polygon(pt, cfg.bed_polygon)
            dist   == edge_distance(pt, cfg.bed_polygon)
        IN  /\ r.in_zone1 <=> (inside /\ DistLeq(dist, cfg.d2_edge))
            /\ ~inside => (~r.in_zone1 /\ r.edge_dist = None)
            /\ inside => r.edge_dist = Some(dist)
            /\ (inside /\ ~DistLeq(dist, cfg.d2_edge)) => ~r.in_zone1
            /\ cfg.bed_polygon = RectBed =>
                  /\ RectDepth(pt) > 0 =>
                        /\ r.edge_dist = Some(Dist(RectDepth(pt) * RectDepth(pt), 1))
                        /\ r.in_zone1 <=> (RectDepth(pt) <= cfg.d2_edge)
                  /\ RectDepth(pt) < 0 => (~r.in_zone1 /\ r.edge_dist = None)

\* C4 witness: a box whose top-left corner lies above the bed and whose
\* bottom centre lies inside the bed, exactly d2_edge from the nearest edge
C4_Witness ==
    /\ Called
    /\ cfg.d2_edge > 0
    /\ res[1].in_zone1
    /\ res[1].edge_dist = Some(Dist(cfg.d2_edge * cfg.d2_edge, 1))
    /\ bbox_in[1][2] < 0

\* ------------------------------------------------------------------------
\* Claims about the store
\* ------------------------------------------------------------------------

\* C8: starting from an absent file or a JSON object, after the successful
\* write_status calls so far the document holds, under every key written,
\* the record of the most recent write for that key; every key the file had
\* and no call wrote keeps its record; no key is missing and none is added.
C8_LastWriterWins ==
    file0.kind \in {"absent", "object"} =>
        IF DOMAIN ledger = {} THEN status_file = file0
        ELSE /\ status_file.kind = "object"
             /\ DOMAIN status_file.doc = (DOMAIN file0.doc) \cup (DOMAIN ledger)
             /\ \A k \in DOMAIN status_file.doc :
                    status_file.doc[k] = IF k \in DOMAIN ledger THEN ledger[k].rec
                                                                ELSE file0.doc[k]

\* C8 witness: the file had two keys; one of them was written twice, another
\* key was added, and the second old key was never written
C8_Witness ==
    /\ file0.kind = "object"
    /\ \E k \in DOMAIN ledger : k \in DOMAIN file0.doc /\ ledger[k].n >= 2
    /\ \E k \in DOMAIN ledger : k \notin DOMAIN file0.doc
    /\ \E k \in DOMAIN file0.doc : k \notin DOMAIN ledger

\* C9 (as claimed): when the file holds text that is not JSON, or JSON that
\* is not an object, the next write_status call (the directory being
\* writable) raises nothing and leaves an object holding the new key only.
C9_UnparseableDiscarded ==
    (/\ last_write # None
     /\ last_write[1].before.kind \in {"invalid", "array", "number"}
     /\ last_write[1].writable) =>
        /\ last_write[1].exc = None
        /\ status_file = FileOf("object", [k \in {last_write[1].key} |->
                                              last_write[1].rec])

\* ------------------------------------------------------------------------
\* Claims about the probe
\* ------------------------------------------------------------------------

IsPerson(o) == o.class_id = PGIE_CLASS_ID_PERSON

\* the person detections of a batch, in the order presented
RECURSIVE PersonsOf(_, _)
PersonsOf(batch, i) ==
    IF i > Len(batch) THEN <<>>
    ELSE SelectSeq(batch[i], IsPerson) \o PersonsOf(batch, i + 1)

\* the last invocation had a context with the monitor and a buffer with
\* batch metadata: its detections were presented to the loops
Presented ==
    /\ probe_in # None
    /\ probe_in[1].u_data # None
    /\ probe_in[1].u_data[1].zone_monitor
    /\ probe_in[1].buf.batch_meta # None

Persons == PersonsOf(probe_in[1].buf.batch_meta[1], 1)

IsUpdate(e) == e.ev = "update"

IsAnnotate(e) == e.ev = "annotate"

IsWrite(e) == e.ev = "write"

IsUpdateOrWrite(e) == e.ev \in {"update", "write"}

IsLine(e, text) == e.ev = "print" /\ e.data.text = text

\* C5 (as claimed): the dwell computed for a detection is dt times the
\* number of consecutive frames up to now in which that subject's own
\* reference point was in zone1, whatever other person detections the
\* frames hold.  (At 4 frames a second every such product is a double.)
C5_DwellPerSubject ==
    \A i \in DOMAIN trace :
        IsUpdate(trace[i]) =>
            trace[i].data.res.dwell = FRatio(trace[i].data.streak, cfg.fps)

\* C6 (as claimed): for every detection the probe classifies PREFALL_ALERT,
\* a console alert line with the camera id, the detection's track id, the
\* level and a detail is written before the next detection is taken up.
C6_AlertLineWritten ==
    \A i \in DOMAIN trace :
        (IsUpdate(trace[i]) /\ trace[i].data.res.level = "PREFALL_ALERT") =>
            \E j \in (i + 1)..Len(trace) :
                /\ trace[j].ev = "alert"
                /\ trace[j].id = trace[i].id
                /\ trace[j].data.cam_id = cfg.camera_id
                /\ trace[j].data.track_id = trace[i].id
                /\ trace[j].data.level = "PREFALL_ALERT"
                /\ \A m \in (i + 1)..(j - 1) : ~IsUpdate(trace[m])

\* C7: every invocation returns OK, whatever its input and whatever fails
\* in write_status or console_alert; each failure is printed right where it
\* happens, and every person detection presented still gets its monitor
\* update, its annotation and its status write attempt.
C7_AlwaysContinues ==
    probe_in # None =>
        /\ probe_ret = "OK"
        /\ \A i \in DOMAIN trace :
              (IsWrite(trace[i]) /\ trace[i].data.exc # None) =>
                  /\ i < Len(trace)
                  /\ IsLine(trace[i + 1], "write_status error:")
                  /\ trace[i + 1].data.exc = trace[i].data.exc[1]
        /\ Presented =>
              /\ Len(SelectSeq(trace, IsUpdate)) = Len(Persons)
              /\ Len(SelectSeq(trace, IsAnnotate)) = Len(Persons)
              /\ Len(SelectSeq(trace, IsWrite)) = Len(Persons)

\* C7 witness: in one invocation a status write failed, then the console
\* alert failed, and a later detection was still updated
C7_Witness ==
    /\ probe_ret = "OK"
    /\ \E i, j, k \in DOMAIN trace :
          /\ i < j /\ j < k
          /\ IsLine(trace[i], "write_status error:")
          /\ IsLine(trace[j], "console_alert error:")
          /\ IsUpdate(trace[k])

\* C10: the monitor updates and the status write attempts of an invocation
\* are those of its person detections, one each, in the order presented
\* (frame by frame, and in a frame by the object list), the write of a
\* detection coming after its update and before the next detection's.
C10_OnceInOrder ==
    Presented =>
        LET uw == SelectSeq(trace, IsUpdateOrWrite)
        IN  /\ Len(uw) = 2 * Len(Persons)
            /\ \A k \in 1..Len(Persons) :
                  /\ uw[2 * k - 1].ev = "update"
                  /\ uw[2 * k - 1].id = Persons[k].object_id
                  /\ uw[2 * k - 1].data.bbox = Persons[k].bbox
                  /\ uw[2 * k].ev = "write"
                  /\ uw[2 * k].id = Persons[k].object_id

\* C10 witness: a batch of two frames with three person detections, all
\* updated and written to the status file
C10_Witness ==
    /\ Presented
    /\ Len(probe_in[1].buf.batch_meta[1]) = 2
    /\ Len(Persons) = 3
    /\ Len(SelectSeq(trace, IsWrite)) = 3
    /\ \A i \in DOMAIN trace : IsWrite(trace[i]) => trace[i].data.exc = None

\* ------------------------------------------------------------------------
\* Claims about the process
\* ------------------------------------------------------------------------

\* main set the pipeline to the playing state
Played == \E i \in 1..Len(mainst.states) : mainst.states[i] = "PLAYING"

\* C11: once main has set the pipeline to the playing state, the process
\* exits only after main has set it to the stopped (NULL) state, whatever
\* ended the event loop: end-of-stream or an error on the bus, an interrupt
\* or another exception raised out of loop.run
C11_StoppedBeforeExit ==
    (pc = "exited" /\ Played) =>
        /\ mainst.loop_end # None
        /\ mainst.states = <<"PLAYING", "NULL">>
        /\ PipelineState(mainst) = "NULL"
        /\ mainst.exc = None

\* an interrupt ended the loop of a playing pipeline, and the process exited
C11_Witness ==
    /\ pc = "exited"
    /\ Played
    /\ mainst.loop_end = Some("interrupt")
    /\ PipelineState(mainst) = "NULL"

\* the command line read lacks --input-file or --proto-lib, or gives it empty
ArgsMissing ==
    /\ argv # None
    /\ \/ argv[1].input_file \in {None, Some("")}
       \/ argv[1].proto_lib \in {None, Some("")}

\* the zone configuration file is missing, is not YAML, or has no bed_polygon
ZoneFileBad ==
    \/ host.zone_file.kind \in {"missing", "unparseable", "empty"}
    \/ host.zone_file.kind = "mapping" /\ host.zone_file.data.bed_polygon = None

\* nothing of the pipeline exists
NoPipeline ==
    /\ ~mainst.pipeline
    /\ mainst.elements = {}
    /\ mainst.added = {}
    /\ ~mainst.linked
    /\ ~Played
    /\ mainst.probe = None
    /\ probes = 0
    /\ pc # "loop"

\* C12: when the required command-line arguments are missing, or the zone
\* configuration cannot be loaded, the process exits with status 1 and no
\* pipeline element is ever created or linked, the pipeline never plays and
\* the probe is never attached or invoked
C12_FatalStartup ==
    /\ ArgsMissing => (NoPipeline /\ pc = "exited" /\ exit_status = Some(1)
                       /\ mainst = MainState0)
    /\ ZoneFileBad => (NoPipeline /\ (pc \notin {"start", "parsed"} =>
                                         pc = "exited" /\ exit_status = Some(1)))

\* main ran with a zone configuration that has no bed_polygon, and ended
C12_Witness ==
    /\ pc = "exited"
    /\ ~ArgsMissing
    /\ host.zone_file.kind = "mapping"
    /\ mainst.exc = Some("KeyError")

\* parse_args returned 1: the process exited with status 1 and main was
\* never entered
ParseFailed ==
    /\ pc = "exited"
    /\ exit_status = Some(1)
    /\ mainst = MainState0

\* C13: parse_args reports failure, and the process exits with status 1
\* before main, exactly when --input-file or --proto-lib is missing or
\* empty; otherwise the schema type is 0 when --schema-type is "0" or is
\* omitted, and 1 for every other value
C13_ParseArgs ==
    argv # None =>
        /\ ParseFailed <=> ArgsMissing
        /\ ~ArgsMissing =>
               globals.schema_type =
                   IF argv[1].schema_type \in {None, Some("0")} THEN 0 ELSE 1

\* both options were given, --schema-type was "00", and main runs the loop
C13_Witness ==
    /\ argv # None
    /\ ~ArgsMissing
    /\ argv[1].schema_type = Some("00")
    /\ globals.schema_type = 1
    /\ pc = "loop"

\* C14: the connection string main sets on the message broker is the
\* default "localhost;2181;testTopic" when --conn-str is not given, and the
\* value given otherwise
C14_ConnStrDefault ==
    \A i \in 1..Len(mainst.props) :
        (mainst.props[i].element = "msgbroker" /\ mainst.props[i].name = "conn-str") =>
            mainst.props[i].value =
                IF argv[1].conn_str = None THEN Some("localhost;2181;testTopic")
                ELSE argv[1].conn_str

\* ------------------------------------------------------------------------
\* deepstream_test_4.py: the demonstration event-message metadata
\* ------------------------------------------------------------------------

generate_vehicle_meta ==
    [type |-> "sedan", color |-> "blue", make |-> "Bugatti", model |-> "M",
     license |-> "XX1234", region |-> "CA"]

generate_person_meta ==
    [age |-> 45, cap |-> "none", hair |-> "black", gender |-> "male",
     apparel |-> "formal"]

\* generate_event_msg_meta(data, class_id); nothing in the module calls it
generate_event_msg_meta(class_id) ==
    [sensorStr  |-> "sensor-0",
     objClassId |-> IF class_id \in {PGIE_CLASS_ID_VEHICLE, PGIE_CLASS_ID_PERSON}
                    THEN Some(class_id) ELSE None,
     type       |-> IF class_id = PGIE_CLASS_ID_PERSON THEN "NVDS_EVENT_ENTRY"
                    ELSE IF class_id = PGIE_CLASS_ID_VEHICLE THEN "NVDS_EVENT_MOVING"
                    ELSE "NONE",
     extMsg     |-> IF class_id = PGIE_CLASS_ID_PERSON THEN Some(generate_person_meta)
                    ELSE IF class_id = PGIE_CLASS_ID_VEHICLE
                    THEN Some(generate_vehicle_meta)
                    ELSE None]

\* the detections of a batch, in the order presented
RECURSIVE ObjectsOf(_, _)
ObjectsOf(batch, i) ==
    IF i > Len(batch) THEN <<>>
    ELSE batch[i] \o ObjectsOf(batch, i + 1)

\* C15: while the pipeline runs, the probe attaches to the frame the event
\* message metadata generate_event_msg_meta builds for each vehicle or
\* person detection of the buffer, whatever the zone logic returned
C15_EventMetaAttached ==
    (Presented /\ PipelineState(mainst) = "PLAYING") =>
        LET objs == ObjectsOf(probe_in[1].buf.batch_meta[1], 1)
        IN  \A k \in 1..Len(objs) :
              objs[k].class_id \in {PGIE_CLASS_ID_VEHICLE, PGIE_CLASS_ID_PERSON} =>
                  \E i \in DOMAIN trace :
                      /\ trace[i].ev = "event_msg_meta"
                      /\ trace[i].id = objs[k].object_id
                      /\ trace[i].data = generate_event_msg_meta(objs[k].class_id)

\* ------------------------------------------------------------------------
\* Claims about the HTTP alert
\* ------------------------------------------------------------------------

\* the last call's POST was answered
Delivered ==
    /\ http_in[1].endpoint.kind = "url"
    /\ http_in[1].network.kind = "answer"

\* C16: http_alert never raises; a call whose request cannot be completed
\* (unreachable or invalid endpoint, timeout, any transport error) prints a
\* warning and returns None, and only an answered POST returns the pair
\* (status code, body)
C16_HttpAlertNeverRaises ==
    http_out # None =>
        /\ http_out[1].exc = None
        /\ Delivered =>
               http_out[1].ret = Some(<<http_in[1].network.status,
                                        http_in[1].network.body>>)
        /\ ~Delivered =>
               /\ http_out[1].ret = None
               /\ Len(http_out[1].printed) = 1
               /\ http_out[1].printed[1].text = "[WARN] http_alert failed:"

\* ------------------------------------------------------------------------
\* Claims about point_in_polygon
\* ------------------------------------------------------------------------

\* the least and the greatest coordinate k of the polygon's vertices
MinOf(poly, k) ==
    CHOOSE v \in {poly[i][k] : i \in 1..Len(poly)} :
        \A i \in 1..Len(poly) : v <= poly[i][k]

MaxOf(poly, k) ==
    CHOOSE v \in {poly[i][k] : i \in 1..Len(poly)} :
        \A i \in 1..Len(poly) : v >= poly[i][k]

StrictlyInside(pt, poly) ==
    /\ MinOf(poly, 1) < pt[1] /\ pt[1] < MaxOf(poly, 1)
    /\ MinOf(poly, 2) < pt[2] /\ pt[2] < MaxOf(poly, 2)

StrictlyOutside(pt, poly) ==
    \/ pt[1] < MinOf(poly, 1) \/ pt[1] > MaxOf(poly, 1)
    \/ pt[2] < MinOf(poly, 2) \/ pt[2] > MaxOf(poly, 2)

\* C17: for an axis-aligned rectangle with integer vertices and an integer
\* point, zone_logic_simple.point_in_polygon and geometry.point_in_polygon
\* both return true when the point is strictly inside, both return false
\* when it is strictly outside, and return the same on the boundary
C17_PointInRectangle ==
    pip_out # None =>
        /\ StrictlyInside(pip_pt[1], pip_poly) =>
               (pip_out[1].zone /\ pip_out[1].geom)
        /\ StrictlyOutside(pip_pt[1], pip_poly) =>
               (~pip_out[1].zone /\ ~pip_out[1].geom)
        /\ pip_out[1].zone = pip_out[1].geom

\* a point on the boundary that both functions place in the rectangle
C17_Witness ==
    /\ pip_out # None
    /\ ~StrictlyInside(pip_pt[1], pip_poly)
    /\ ~StrictlyOutside(pip_pt[1], pip_poly)
    /\ pip_out[1].zone
    /\ pip_out[1].geom

\* ------------------------------------------------------------------------
\* More claims about the monitor
\* ------------------------------------------------------------------------

\* C18: whatever update calls were made, with dt given or defaulted from
\* fps, the monitor's dwell is >= 0, it is 0 when the last update was not in
\* zone1, and prev_in_zone1 is the in_zone1 the last update returned (false
\* before the first)
C18_MonitorInvariant ==
    /\ FGeq(dwell, FZero)
    /\ (Called /\ ~res[1].in_zone1) => dwell = FZero
    /\ prev_in_zone1 = (IF Called THEN res[1].in_zone1 ELSE FALSE)

\* ------------------------------------------------------------------------
\* More claims about the probe
\* ------------------------------------------------------------------------

\* trace[i] is a status write that succeeded, the invocation's last one for
\* its subject
LastWrite(i) ==
    /\ IsWrite(trace[i])
    /\ trace[i].data.exc = None
    /\ \A j \in (i + 1)..Len(trace) :
          ~(IsWrite(trace[j]) /\ trace[j].id = trace[i].id
                              /\ trace[j].data.exc = None)

\* the record of the subject of trace[i] in the status document
RecordOf(i) == status_file.doc[StatusKey(cfg.camera_id, trace[i].id)]

\* every record's colour is red for prefall and green otherwise
ColoursFit ==
    \A k \in DOMAIN status_file.doc :
        status_file.doc[k].color = IF status_file.doc[k].prefall THEN "red"
                                   ELSE "green"

\* C19 (as claimed): after a person detection whose status write succeeded,
\* the record under "{camera_id}:{object_id}" has prefall equal to the
\* in_zone1 of that detection's update and dwell_sec equal to its dwell
C19_StatusDwellExact ==
    Presented =>
        \A i \in 3..Len(trace) :
            LastWrite(i) =>
                /\ IsUpdate(trace[i - 2])
                /\ RecordOf(i).prefall = trace[i - 2].data.res.in_zone1
                /\ RecordOf(i).dwell_sec = trace[i - 2].data.res.dwell

\* C19 (amended): after a person detection whose status write succeeded,
\* the record under "{camera_id}:{object_id}" has prefall equal to the
\* in_zone1 of that detection's update and dwell_sec equal to its dwell
\* rounded to 2 decimals; every record's colour is red iff its prefall is
\* true and green otherwise, so PREFALL_SHORT is recorded as prefall, red
C19_StatusRecord ==
    /\ status_file.kind = "object" => ColoursFit
    /\ Presented =>
        \A i \in 3..Len(trace) :
            LastWrite(i) =>
                /\ IsUpdate(trace[i - 2])
                /\ trace[i - 2].id = trace[i].id
                /\ RecordOf(i).prefall = trace[i - 2].data.res.in_zone1
                /\ RecordOf(i).dwell_sec = PyRound(trace[i - 2].data.res.dwell, 2)
                /\ trace[i - 2].data.res.level = "PREFALL_SHORT" =>
                       (RecordOf(i).prefall /\ RecordOf(i).color = "red")

\* a detection in PREFALL_SHORT with a dwell of 0.125 s was recorded as
\* prefall and red, its dwell_sec differing from its dwell
C19_Witness ==
    /\ Presented
    /\ \E i \in 3..Len(trace) :
          /\ LastWrite(i)
          /\ trace[i - 2].data.res.level = "PREFALL_SHORT"
          /\ trace[i - 2].data.res.dwell = FRatio(1, 8)
          /\ RecordOf(i).color = "red"
          /\ RecordOf(i).dwell_sec # trace[i - 2].data.res.dwell

\* C20: the annotation of a person detection has border width 3, the
\* border colour of the level its own update returned (green for SAFE,
\* yellow for PREFALL_SHORT, red for PREFALL_ALERT) and the text
\* "Person | {level} {dwell}s" of that same level and dwell (one decimal);
\* every update is followed by the annotation of its detection
C20_AnnotationByOwnLevel ==
    Presented =>
        /\ \A i \in DOMAIN trace :
              IsUpdate(trace[i]) => (i < Len(trace) /\ IsAnnotate(trace[i + 1]))
        /\ \A i \in DOMAIN trace :
              IsAnnotate(trace[i]) =>
                  /\ i > 1
                  /\ IsUpdate(trace[i - 1])
                  /\ trace[i - 1].id = trace[i].id
                  /\ trace[i].data.border_width = 3
                  /\ trace[i].data.border_color =
                         CASE trace[i - 1].data.res.level = "SAFE" ->
                                  Some(<<0, 1, 0, 1>>)
                           [] trace[i - 1].data.res.level = "PREFALL_SHORT" ->
                                  Some(<<1, 1, 0, 1>>)
                           [] trace[i - 1].data.res.level = "PREFALL_ALERT" ->
                                  Some(<<1, 0, 0, 1>>)
                  /\ trace[i].data.text.level = trace[i - 1].data.res.level
                  /\ trace[i].data.text.tenths =
                         FDecimal(trace[i - 1].data.res.dwell, 1)

\* in one invocation one subject was annotated red, as PREFALL_ALERT, and
\* another one green, as SAFE
C20_Witness ==
    /\ Presented
    /\ \E i, j \in DOMAIN trace :
          /\ IsAnnotate(trace[i])
          /\ IsAnnotate(trace[j])
          /\ trace[i].id # trace[j].id
          /\ trace[i].data.border_color = Some(<<1, 0, 0, 1>>)
          /\ trace[i].data.text.level = "PREFALL_ALERT"
          /\ trace[j].data.border_color = Some(<<0, 1, 0, 1>>)
          /\ trace[j].data.text.level = "SAFE"

\* the invocation inp = [u_data, buf] has no context, no buffer, no batch
\* metadata, or a context without the zone monitor
Idle(inp) ==
    \/ inp.u_data = None
    \/ ~inp.buf.present
    \/ inp.buf.batch_meta = None
    \/ ~inp.u_data[1].zone_monitor

\* the detections of the invocation inp that are of the class id its context
\* names as the person's, and the others
OfPersonClass(inp) ==
    { o \in {ObjectsOf(inp.buf.batch_meta[1], 1)[k] :
                k \in 1..Len(ObjectsOf(inp.buf.batch_meta[1], 1))} :
        o.class_id = inp.u_data[1].person_class_id }

OfOtherClass(inp) ==
    { o \in {ObjectsOf(inp.buf.batch_meta[1], 1)[k] :
                k \in 1..Len(ObjectsOf(inp.buf.batch_meta[1], 1))} :
        o.class_id # inp.u_data[1].person_class_id }

\* the events of tr that touch the monitor, an annotation, the status
\* document or an alert
IsEffect(e) == e.ev \in {"update", "annotate", "write", "alert"}

\* C21: an invocation with no context, no buffer, no batch metadata or no
\* zone monitor, and one whose detections are all of another class than the
\* person's, leaves dwell, prev_in_zone1 and the status document as they
\* were, annotates nothing and raises no alert; in any invocation a
\* detection of another class is neither annotated nor alerted on
C21_OnlyPersonsChangeState ==
    [][ probes' = probes + 1 =>
          /\ (Idle(probe_in'[1]) \/ OfPersonClass(probe_in'[1]) = {}) =>
                /\ dwell' = dwell
                /\ prev_in_zone1' = prev_in_zone1
                /\ status_file' = status_file
                /\ SelectSeq(trace', IsEffect) = <<>>
          /\ ~Idle(probe_in'[1]) =>
                \A o \in OfOtherClass(probe_in'[1]) :
                    o.object_id \notin {p.object_id : p \in OfPersonClass(probe_in'[1])} =>
                        \A i \in DOMAIN trace' : trace'[i].id # o.object_id
      ]_vars

\* after an invocation that left the monitor with a dwell, one with a
\* context without the zone monitor and a person in the buffer did nothing
C21_Witness ==
    /\ probes = 2
    /\ probe_in[1].u_data # None
    /\ ~probe_in[1].u_data[1].zone_monitor
    /\ probe_in[1].buf.batch_meta # None
    /\ dwell # FZero
    /\ trace = <<>>

\* C22: a monitor built from a configuration that differs only in
\* cooldown_sec, given the same update calls (same boxes, same dt), returns
\* the same results and holds the same dwell and prev_in_zone1 after every
\* call
C22_CooldownUnused ==
    (twin # None /\ twin[1].cfg = [cfg EXCEPT !.cooldown_sec = twin[1].cfg.cooldown_sec]) =>
        /\ twin[1].res = res
        /\ twin[1].dwell = dwell
        /\ twin[1].prev_in_zone1 = prev_in_zone1

\* both monitors, of different cooldowns, returned PREFALL_ALERT with a
\* dwell above T_alert
C22_Witness ==
    /\ twin # None
    /\ twin[1].cfg.cooldown_sec # cfg.cooldown_sec
    /\ Called
    /\ res[1].level = "PREFALL_ALERT"
    /\ FCmp(dwell, cfg.T_alert) > 0
    /\ twin[1].res = res

\* ------------------------------------------------------------------------
\* deepstream_test_4.py: an element that cannot be created
\* ------------------------------------------------------------------------

\* main ran past the zone configuration on a host where a factory returns
\* no element
ElementFailed ==
    /\ pc \in {"loop", "exited"}
    /\ mainst.pipeline
    /\ host.unavailable # {}

\* C23: when the creation of a pipeline element fails, main writes an error
\* line to standard error and assembly goes on through the remaining steps:
\* the properties are set, the elements added and linked, the probe attached
\* and the pipeline set to the playing state
C23_AssemblyContinues ==
    ElementFailed =>
        /\ \A e \in host.unavailable :
               \E i \in 1..Len(mainst.stderr) : mainst.stderr[i] = [unable |-> e]
        /\ mainst.linked
        /\ mainst.probe # None
        /\ Played

\* ------------------------------------------------------------------------
\* deepstream_test_4.py: a subject that stays in zone1
\* ------------------------------------------------------------------------

\* ceil(T_alert / dt) for the probe's dt = 1 / fps: the least number of
\* frames whose dt add up to T_alert
AlertFrames(c) ==
    CHOOSE n \in 1..(4 * c.fps) :
        /\ FGeq(FRatio(n, c.fps), c.T_alert)
        /\ \A k \in 1..(n - 1) : ~FGeq(FRatio(k, c.fps), c.T_alert)

\* console_alert was called for the detection of the update trace[i], before
\* the next detection was taken up: it wrote its line or its failure was
\* printed
AlertAttempted(i) ==
    \E j \in (i + 1)..Len(trace) :
        /\ \/ trace[j].ev = "alert" /\ trace[j].id = trace[i].id
           \/ IsLine(trace[j], "console_alert error:")
        /\ \A k \in (i + 1)..(j - 1) : ~IsUpdate(trace[k])

\* C24 (as claimed): a person detection whose reference point has been in
\* zone1 for ceil(T_alert / dt) consecutive frames or more is classified
\* PREFALL_ALERT, gets the red border and has its alert attempted, in that
\* frame and in every later frame it stays, whatever other person detections
\* the frames hold
C24_LingeringEscalated ==
    Presented =>
        \A i \in DOMAIN trace :
            (IsUpdate(trace[i]) /\ trace[i].data.streak >= AlertFrames(cfg)) =>
                /\ trace[i].data.res.level = "PREFALL_ALERT"
                /\ i < Len(trace)
                /\ IsAnnotate(trace[i + 1])
                /\ trace[i + 1].data.border_color = Some(<<1, 0, 0, 1>>)
                /\ AlertAttempted(i)

============================================================================
